---- MODULE Spec2Model ----
(***************************************************************************)
(* log-speed: a live Top-K observer.  An ingest reader adds events to a    *)
(* sliding-window Top-K sketch, a wall-clock ticker or the event           *)
(* timestamps advance the sketch's time, and the UI goroutine refreshes a  *)
(* ranked Top-K list through the IncrementalRanker.                        *)
(*                                                                         *)
(* Time is counted in units of half a tick; the value 0 is Go's zero       *)
(* time.Time.  The sliding sketch (github.com/keilerkonzept/topk/sliding)  *)
(* is vendored and modelled from the specification text.                   *)
(***************************************************************************)
EXTENDS Integers, Sequences, FiniteSets, TLC

\* ------------------------------------------------------------------ bounds
MaxInput == 4        \* longest input stream the reader is given
MaxClock == 13       \* the last tick of the wall ticker is no later
MaxCount == 2        \* largest "count" field of a record
MaxObserve == 3      \* observations of one kind in a run of the metrics
MaxDriverTime == 13  \* latest time a driver of the sketch clock is called with

\* --------------------------------------------------------------- constants
TickSize == 2        \* config.TickSize, in time units
Epoch == 4           \* the model time of Unix time 0 (a multiple of TickSize)
ClockStart == 7      \* wall-clock time when the program starts
Depth == 2           \* config.Depth (sketch rows)
Width == 2           \* config.Width (sketch columns)

Items == {"a", "b", "c"}
ItemOrd == [a |-> 1, b |-> 2, c |-> 3]

Max2(x, y) == IF x > y THEN x ELSE y
Min2(x, y) == IF x < y THEN x ELSE y
SetMin(S) == CHOOSE x \in S : \A y \in S : x <= y

RECURSIVE SumSeq(_)
SumSeq(s) == IF s = <<>> THEN 0 ELSE Head(s) + SumSeq(Tail(s))

\* ------------------------------------------------------------------ sketch
Rows == 0 .. (Depth - 1)

\* topk.BucketIndex(item, row, width): a fixed hash table; a and b collide in
\* row 0, b and c collide in row 1.
BucketIndex(item, row) ==
    IF row = 0 THEN (IF item = "c" THEN 1 ELSE 0)
               ELSE (IF item = "a" THEN 0 ELSE 1)

\* topk.Fingerprint(item)
Fingerprint(item) == ItemOrd[item]

ZeroCounts(h) == [i \in 1 .. h |-> 0]

EmptyBucket(h) == [fp |-> 0, first |-> 0, counts |-> ZeroCounts(h)]

\* sliding.New(k, historyLen, ...)
NewSketch(h) ==
    [buckets |-> [rc \in Rows \X (0 .. (Width - 1)) |-> EmptyBucket(h)],
     heap |-> {}]

HistLen(b) == Len(b.counts)

\* the ring slot (1-based) that holds the current tick; first is the oldest
CurSlot(b) == ((b.first + HistLen(b) - 1) % HistLen(b)) + 1

Aggregate(b) == SumSeq(b.counts)

\* a collision decays one unit of the owner's count; when the count reaches 0
\* the bucket is reassigned and starts counting the new item
DecayBucket(b, j, fp, d) ==
    LET c == [b.counts EXCEPT ![j] = @ - 1]
    IN IF SumSeq(c) = 0
       THEN [b EXCEPT !.fp = fp, !.counts = [c EXCEPT ![CurSlot(b)] = d]]
       ELSE [b EXCEPT !.counts = c]

\* the outcomes of incrementing one bucket by d for fingerprint fp: the
\* probabilistic decay either happens or not
BucketAdd(b, fp, d) ==
    IF b.fp = fp \/ Aggregate(b) = 0
    THEN {[b EXCEPT !.fp = fp, !.counts[CurSlot(b)] = @ + d]}
    ELSE {b} \cup {DecayBucket(b, j, fp, d) : j \in {i \in 1 .. HistLen(b) : b.counts[i] > 0}}

\* Count(x): the minimum aggregate over the rows whose bucket x still owns
Estimate(buckets, item) ==
    LET m == {Aggregate(buckets[<<r, BucketIndex(item, r)>>]) :
                r \in {q \in Rows : buckets[<<q, BucketIndex(item, q)>>].fp = Fingerprint(item)}}
    IN IF m = {} THEN 0 ELSE SetMin(m)

Count(s, item) == Estimate(s.buckets, item)

HeapItem(item, c) == [item |-> item, fp |-> Fingerprint(item), count |-> c]

\* heap maintenance after an increment
HeapUpdate(heap, k, item, est) ==
    IF \E e \in heap : e.item = item
    THEN {{IF e.item = item THEN HeapItem(item, est) ELSE e : e \in heap}}
    ELSE IF Cardinality(heap) < k
    THEN {heap \cup {HeapItem(item, est)}}
    ELSE LET mn == SetMin({e.count : e \in heap})
         IN IF est > mn
            THEN {(heap \ {e}) \cup {HeapItem(item, est)} : e \in {x \in heap : x.count = mn}}
            ELSE {heap}

\* every way of incrementing the buckets of the rows from r on
RECURSIVE RowsAdd(_, _, _, _)
RowsAdd(buckets, item, d, r) ==
    IF r >= Depth THEN {buckets}
    ELSE LET rc == <<r, BucketIndex(item, r)>> IN
         UNION {{[bs EXCEPT ![rc] = b] : b \in BucketAdd(buckets[rc], Fingerprint(item), d)} :
                  bs \in RowsAdd(buckets, item, d, r + 1)}

\* every way of incrementing the buckets of all rows
BucketsAdd(buckets, item, d) == RowsAdd(buckets, item, d, 0)

\* Sketch.Add(item, d) / Sketch.Incr(item) = Add(item, 1): the possible results
SketchAdd(s, k, item, d) ==
    UNION {{[buckets |-> bs, heap |-> hp] : hp \in HeapUpdate(s.heap, k, item, Estimate(bs, item))} :
             bs \in BucketsAdd(s.buckets, item, d)}

\* one tick of one bucket: the oldest slot is zeroed and becomes the current one
BucketTick(b) ==
    [b EXCEPT !.counts[b.first + 1] = 0, !.first = (b.first + 1) % HistLen(b)]

RECURSIVE BucketTicks(_, _)
BucketTicks(b, n) == IF n <= 0 THEN b ELSE BucketTicks(BucketTick(b), n - 1)

\* Sketch.Ticks(n)
SketchTicks(s, n) ==
    LET bs == [rc \in DOMAIN s.buckets |->
                 IF n >= HistLen(s.buckets[rc])
                 THEN [s.buckets[rc] EXCEPT !.counts = ZeroCounts(HistLen(s.buckets[rc])),
                                            !.first = (@ + n) % HistLen(s.buckets[rc])]
                 ELSE BucketTicks(s.buckets[rc], n)]
        hp == {HeapItem(e.item, Estimate(bs, e.item)) : e \in s.heap}
    IN [buckets |-> bs, heap |-> {e \in hp : e.count > 0}]

\* heap.Item order of SortedSlice and of the ranker: count descending, item ascending
ItemLess(x, y) ==
    IF x.count # y.count THEN x.count > y.count ELSE ItemOrd[x.item] < ItemOrd[y.item]

RECURSIVE InsertSorted(_, _)
InsertSorted(s, x) ==
    IF s = <<>> THEN <<x>>
    ELSE IF ItemLess(x, Head(s)) THEN <<x>> \o s
    ELSE <<Head(s)>> \o InsertSorted(Tail(s), x)

RECURSIVE SetToSorted(_)
SetToSorted(S) ==
    IF S = {} THEN <<>>
    ELSE LET x == CHOOSE y \in S : TRUE IN InsertSorted(SetToSorted(S \ {x}), x)

RECURSIVE TrimZeros(_)
TrimZeros(s) ==
    IF s # <<>> /\ s[Len(s)].count = 0 THEN TrimZeros(SubSeq(s, 1, Len(s) - 1)) ELSE s

\* Sketch.SortedSlice(): a sorted copy of the heap without zero-count entries
SortedSlice(s) == TrimZeros(SetToSorted(s.heap))

\* ------------------------------------------------------------------ ranker
\* an auto budget without the floor of 10 for k >= 10
AutoBudgetNoFloor(k) ==
    LET b1 == IF k \div 2 < 1 THEN 1 ELSE k \div 2
        b3 == IF b1 > 100 THEN 100 ELSE b1
    IN IF b3 > k THEN k ELSE b3

\* NewIncrementalRanker: the auto budget of a partial refresh
AutoBudget(k) ==
    LET b1 == IF k \div 2 < 1 THEN 1 ELSE k \div 2
        b2 == IF k >= 10 /\ b1 < 10 THEN 10 ELSE b1
        b3 == IF b2 > 100 THEN 100 ELSE b2
    IN IF b3 > k THEN k ELSE b3

NewIncrementalRanker == [items |-> <<>>, lastFullRefresh |-> 0, partialCursor |-> 0]

\* needFull that waits for more than the interval
NeedFullStrict(r, now, fullRefresh) ==
    \/ Len(r.items) = 0
    \/ r.lastFullRefresh = 0
    \/ fullRefresh = 0
    \/ (fullRefresh > 0 /\ now - r.lastFullRefresh > fullRefresh)

\* needFull without the case of interval 0
NeedFullNoZero(r, now, fullRefresh) ==
    \/ Len(r.items) = 0
    \/ r.lastFullRefresh = 0
    \/ (fullRefresh > 0 /\ now - r.lastFullRefresh >= fullRefresh)

\* Refresh: needFull
NeedFull(r, now, fullRefresh) ==
    \/ Len(r.items) = 0
    \/ r.lastFullRefresh = 0
    \/ fullRefresh = 0
    \/ (fullRefresh > 0 /\ now - r.lastFullRefresh >= fullRefresh)

\* Refresh: discovered[:k]
Truncate(s, k) == IF Len(s) > k THEN SubSeq(s, 1, k) ELSE s

\* a limit that is always all items
PartialLimitAll(n, partialSize, budgetItems, k) == n

\* Refresh: the number of items a partial refresh updates
PartialLimit(n, partialSize, budgetItems, k) ==
    IF partialSize > 0
    THEN (IF partialSize < n THEN partialSize ELSE n)
    ELSE LET b == IF budgetItems <= 0 THEN AutoBudget(k) ELSE budgetItems
         IN IF b > 0 /\ b < n THEN b ELSE n

\* segments that end with the slice instead of going round
PartialSegmentsNoWrap(n, cursor, limit) ==
    IF limit >= n THEN <<<<1, n>>>>
    ELSE LET start == cursor % n
         IN IF start + limit <= n THEN <<<<start + 1, limit>>>>
            ELSE <<<<start + 1, n - start>>>>

\* a window that starts again with limit items after it went round
PartialSegmentsAgain(n, cursor, limit) ==
    IF limit >= n THEN <<<<1, n>>>>
    ELSE LET start == cursor % n
         IN IF start + limit <= n THEN <<<<start + 1, limit>>>>
            ELSE <<<<start + 1, n - start>>, <<1, limit>>>>

\* Refresh: the segments handed to updateCountsFn, as <<first position, length>>
\* with 1-based positions
PartialSegments(n, cursor, limit) ==
    IF limit >= n THEN <<<<1, n>>>>
    ELSE LET start == cursor % n
             end == start + limit
         IN IF end <= n THEN <<<<start + 1, limit>>>>
            ELSE <<<<start + 1, n - start>>, <<1, end - n>>>>

\* Refresh: partialCursor after the segments were updated
NextCursor(n, cursor, limit) ==
    IF limit >= n THEN cursor ELSE ((cursor % n) + limit) % n

\* a segment update that reads no count
UpdateCountsNone(items, seg, s) == items

\* updateCountsFn of updateTopKIncremental on one segment
UpdateCounts(items, seg, s) ==
    [i \in 1 .. Len(items) |->
        IF i >= seg[1] /\ i < seg[1] + seg[2]
        THEN [items[i] EXCEPT !.count = Count(s, items[i].item)]
        ELSE items[i]]

RECURSIVE StableSort(_)
StableSort(s) ==
    IF s = <<>> THEN <<>>
    ELSE InsertSorted(StableSort(SubSeq(s, 1, Len(s) - 1)), s[Len(s)])

\* the sort without the zero trim
SortOnly(items) == StableSort(items)

\* the zero trim without the sort
TrimOnly(items) == TrimZeros(items)

\* Refresh: sort.SliceStable, then the trailing zero-count entries are cut
SortAndTrim(items) == TrimZeros(StableSort(items))

\* -------------------------------------------------------- slices of items
\* A []heap.Item is a window [a, n] on a backing array; a = 0 is the nil slice.
NilSlice == [a |-> 0, n |-> 0]

\* no array, the ranker's items and the last slice of sortedFn nil, no slice
\* of an earlier Refresh held by a caller
InitMem == [arr |-> <<>>, rk |-> NilSlice, disc |-> NilSlice, held |-> <<>>]

\* the elements a slice shows
Deref(arr, sl) == IF sl.a = 0 THEN <<>> ELSE SubSeq(arr[sl.a], 1, sl.n)

\* make([]heap.Item, len): a new backing array with the given content
Alloc(arr, content) ==
    LET id == CHOOSE i \in 1 .. (Cardinality(DOMAIN arr) + 1) : i \notin DOMAIN arr
    IN  [arr |-> [j \in DOMAIN arr \cup {id} |-> IF j = id THEN content ELSE arr[j]],
         out |-> [a |-> id, n |-> Len(content)]]

\* a clone that hands out its argument
CloneItemsShared(arr, in) == [arr |-> arr, out |-> in]

\* cloneItems: make and copy
CloneItems(arr, in) == Alloc(arr, Deref(arr, in))

\* a write through a slice: the elements the slice shows are replaced, the
\* rest of the backing array stays
WriteSlice(arr, sl, content) ==
    IF sl.a = 0 THEN arr
    ELSE [arr EXCEPT ![sl.a] = content \o SubSeq(@, sl.n + 1, Len(@))]

\* the arrays the slices refer to, in the order rk, disc, held
SliceRefs(m) == <<m.rk.a, m.disc.a>> \o [i \in DOMAIN m.held |-> m.held[i].a]

\* the place of array a among the arrays in use, 0 for the nil slice
ArrayRank(refs, a) ==
    IF a = 0 THEN 0
    ELSE LET f == CHOOSE j \in DOMAIN refs :
                      refs[j] = a /\ \A i \in 1 .. (j - 1) : refs[i] # a
         IN  Cardinality({refs[j] : j \in 1 .. f} \ {0})

\* only the arrays some slice still refers to are kept; which array is which
\* is not observable, so they are numbered in the order of SliceRefs
Collect(m) ==
    LET refs == SliceRefs(m)
        used == {refs[j] : j \in DOMAIN refs} \ {0}
        old(n) == CHOOSE x \in used : ArrayRank(refs, x) = n
    IN  [arr |-> [n \in 1 .. Cardinality(used) |-> m.arr[old(n)]],
         rk |-> [m.rk EXCEPT !.a = ArrayRank(refs, @)],
         disc |-> [m.disc EXCEPT !.a = ArrayRank(refs, @)],
         held |-> [i \in DOMAIN m.held |-> [m.held[i] EXCEPT !.a = ArrayRank(refs, @)]]]

\* ---------------------------------------------------------- latencyMetrics
\* newLatencyMetrics: the smallest capacity of the two sample rings
MinStatsWindow == 16

\* -stats-window values given on the command line
StatsWindows == {1, MinStatsWindow + 1}

NewInt64Ring(n) == [buf |-> [i \in 1 .. Max2(n, 1) |-> 0], idx |-> 0, count |-> 0]

\* int64Ring.add; idx is the 0-based index of the source
RingAdd(r, v) ==
    [buf |-> [r.buf EXCEPT ![r.idx + 1] = v],
     idx |-> IF r.idx + 1 >= Len(r.buf) THEN 0 ELSE r.idx + 1,
     count |-> IF r.count < Len(r.buf) THEN r.count + 1 ELSE r.count]

\* int64Ring.snapshot that takes the first cell for the oldest sample
RingSnapshotFirstCell(r) ==
    IF r.count = 0 THEN [oldest |-> 0, newest |-> 0, n |-> 0]
    ELSE LET newestIdx == IF r.idx - 1 < 0 THEN Len(r.buf) - 1 ELSE r.idx - 1
         IN  [oldest |-> r.buf[1], newest |-> r.buf[newestIdx + 1], n |-> r.count]

\* int64Ring.snapshot: oldest, newest, n
RingSnapshot(r) ==
    IF r.count = 0 THEN [oldest |-> 0, newest |-> 0, n |-> 0]
    ELSE LET newestIdx == IF r.idx - 1 < 0 THEN Len(r.buf) - 1 ELSE r.idx - 1
             oldestIdx == IF r.count = Len(r.buf) THEN r.idx ELSE 0
         IN  [oldest |-> r.buf[oldestIdx + 1], newest |-> r.buf[newestIdx + 1], n |-> r.count]

NewLatencyMetrics(window) ==
    LET w == IF window < MinStatsWindow THEN MinStatsWindow ELSE window
    IN  [enabled |-> FALSE, ingestedRecords |-> 0, lastIngestNs |-> 0, mu |-> "none",
         ingestRecent |-> NewInt64Ring(w), rankLagNs |-> NewInt64Ring(w)]

SetEnabled(m, v) == [m EXCEPT !.enabled = v]

\* the adder that forgets the old value
CountStore(n) == 1

\* atomic.Uint64.Add(1)
CountAdd(n) == n + 1

\* observeTopKRefresh: the lag of a refresh at nowNs
RankLag(lastIngestNs, nowNs) ==
    IF lastIngestNs > 0 /\ nowNs > lastIngestNs THEN nowNs - lastIngestNs ELSE 0

\* recentRate: (n-1) / seconds, rounded half up; a second is TickSize time units
RecentRate(oldest, newest, n) ==
    IF n <= 1 \/ newest <= oldest THEN 0
    ELSE LET dt == newest - oldest
         IN  (2 * TickSize * (n - 1) + dt) \div (2 * dt)

RECURSIVE InsertInt(_, _)
InsertInt(s, v) ==
    IF s = <<>> THEN <<v>>
    ELSE IF v < s[1] THEN <<v>> \o s
    ELSE <<s[1]>> \o InsertInt(Tail(s), v)

RECURSIVE SortInts(_)
SortInts(s) == IF s = <<>> THEN <<>> ELSE InsertInt(SortInts(Tail(s)), s[1])

\* percentile95Duration: the samples of the ring oldest first, sorted, and the
\* element at int(0.95 * (len - 1))
RingValues(r) ==
    [i \in 1 .. r.count |->
        r.buf[((r.idx - r.count + (i - 1) + Len(r.buf)) % Len(r.buf)) + 1]]

\* percentile95Duration with the position rounded up
Percentile95Up(r) ==
    IF r.count = 0 THEN [p95 |-> 0, n |-> 0]
    ELSE LET vals == SortInts(RingValues(r))
             pos == (95 * (Len(vals) - 1) + 99) \div 100
         IN  [p95 |-> vals[pos + 1], n |-> Len(vals)]

Percentile95Duration(r) ==
    IF r.count = 0 THEN [p95 |-> 0, n |-> 0]
    ELSE LET vals == SortInts(RingValues(r))
             pos == (95 * (Len(vals) - 1)) \div 100
         IN  [p95 |-> vals[pos + 1], n |-> Len(vals)]

EmptySnapshot ==
    [records |-> 0, ingestRps |-> 0, ingestSamples |-> 0, ingestLag |-> 0,
     rankLagP95 |-> 0, rankLagSamples |-> 0]

\* ------------------------------------------------------------------- state
VARIABLES
    cfg,                  \* config of the run, and whether the pause key is used in it
    clock,                \* wall-clock time: the latest tick of the wall ticker
    input,                \* the records still to be read: one set of possible records per position
    sketch,               \* model.sketch
    sketchMu,             \* model.sketchMu: "none" or the goroutine holding it
    timestampsFromData,   \* model.timestampsFromData
    paused,               \* model.paused
    waiters,              \* the goroutines parked in pauseCond.Wait
    rd,                   \* the ingest reader goroutine (readAndCountInput)
    tk,                   \* the wall ticker goroutine (sketchTickCmd)
    ui,                   \* the UI goroutine (Update)
    ranker,               \* model.ranker
    listItems,            \* model.listItems
    latestTick,           \* model.latestTick
    obs,                  \* the last operation that changed the sketch, and whether
                          \* a Refresh began after it
    metrics,              \* model.metrics (latencyMetrics)
    mem                   \* the backing arrays of the item slices the ranker handles

vars == <<cfg, clock, input, sketch, sketchMu, timestampsFromData, paused, waiters,
          rd, tk, ui, ranker, listItems, latestTick, obs, metrics, mem>>

\* t.Truncate(config.TickSize)
Truncated(t) == t - (t % TickSize)

\* time.Unix(int64(seconds), 0) of a numeric timestamp given in half seconds
UnixTime(half) == Epoch + TickSize * (half \div 2)

\* the event time of a record: a numeric timestamp is epoch seconds, a string
\* timestamp is parsed with the layout (0 when it does not parse), else absent
EventTime(rec) ==
    IF rec.ts[1] = "num" THEN UnixTime(rec.ts[2])
    ELSE IF rec.ts[1] = "str" THEN rec.ts[2]
    ELSE 0

Rec(item, count, ts) == [item |-> item, count |-> count, ts |-> ts, ok |-> TRUE]

\* a line without " - - [" or "]", a record that does not decode
BadRec == [item |-> "b", count |-> 0, ts |-> <<"none">>, ok |-> FALSE]

Config(name, k, h, full, part, mode, replay, maxLines, pace, keys) ==
    [name |-> name, k |-> k, historyLen |-> h, fullRefresh |-> full, partialSize |-> part,
     mode |-> mode, replay |-> replay, maxLines |-> maxLines, pace |-> pace, keys |-> keys,
     stats |-> FALSE]

\* plain lines by position
TextRecords(i) ==
    IF i = 1 THEN {Rec("a", 0, <<"none">>)}
    ELSE IF i = 2 THEN {Rec("b", 0, <<"none">>)}
    ELSE {Rec("a", 0, <<"none">>), Rec("b", 0, <<"none">>)}

\* JSON records by position: without a timestamp, with an integer and a
\* fractional timestamp, with and without a count, and one that does not decode
JSONRecords(i) ==
    IF i = 1 THEN {Rec("a", 0, <<"none">>), Rec("a", 0, <<"num", 0>>)}
    ELSE {Rec("b", 0, <<"num", 3>>), Rec("b", MaxCount, <<"num", 4>>), BadRec}

\* the stream x@0s, x@0s, y@5s and an event at 12s
WindowRecords(i) ==
    IF i <= 2 THEN {Rec("a", 0, <<"num", 0>>)}
    ELSE IF i = 3 THEN {Rec("c", 0, <<"num", 10>>)}
    ELSE {Rec("b", 0, <<"num", 24>>)}

\* an event, then one a tick earlier or one later in the same tick
LateRecords(i) ==
    IF i = 1 THEN {Rec("a", 0, <<"str", Epoch + 2 * TickSize>>)}
    ELSE {Rec("a", 0, <<"str", Epoch + TickSize>>),
          Rec("a", 0, <<"str", Epoch + 2 * TickSize + 1>>)}

\* two events two ticks apart
PausedRecords(i) == {Rec("a", 0, <<"num", 4 * (i - 1)>>)}

\* access-log lines by position; one lacks the delimiters, the timestamp of
\* another does not parse
AccessLogRecords(i) ==
    IF i = 1 THEN {Rec("a", 0, <<"str", Epoch>>), BadRec}
    ELSE {Rec("b", 0, <<"str", Epoch + 3>>), Rec("b", 0, <<"str", 0>>)}

\* the explored runs: a configuration and the input it reads
Scenarios ==
    \* plain text, wall-clock ticks
    {[cfg |-> Config("text", k, 2, 5, 0, "text", FALSE, 0, 0, FALSE),
      input |-> [i \in 1 .. (MaxInput - 1) |-> TextRecords(i)]] : k \in {1, 2}}
    \cup
    \* record stream, data clock
    {[cfg |-> Config("json", 2, 2, 5, 0, "json", FALSE, 0, 0, FALSE),
      input |-> [i \in 1 .. (MaxInput - 2) |-> JSONRecords(i)]]}
    \cup
    \* record stream over a window of ten ticks
    {[cfg |-> Config("window", 2, 10, 5, 0, "json", FALSE, 0, 0, FALSE),
      input |-> [i \in 1 .. MaxInput |-> WindowRecords(i)]]}
    \cup
    \* access log in replay
    {[cfg |-> Config("replay", 2, 2, 5, 0, "accesslog", TRUE, 0, 0, FALSE),
      input |-> [i \in 1 .. (MaxInput - 2) |-> AccessLogRecords(i)]]}
    \cup
    \* access log without replay
    {[cfg |-> Config("accesslog", 2, 2, 5, 0, "accesslog", FALSE, 0, 0, FALSE),
      input |-> [i \in 1 .. (MaxInput - 2) |-> AccessLogRecords(i)]]}
    \cup
    \* access log with a line limit
    {[cfg |-> Config("limit", 2, 2, 5, 0, "accesslog", FALSE, MaxInput - 3, 0, FALSE),
      input |-> [i \in 1 .. (MaxInput - 2) |-> AccessLogRecords(i)]]}
    \cup
    \* record stream in replay
    {[cfg |-> Config("jreplay", 2, 2, 5, 0, "json", TRUE, 0, 0, FALSE),
      input |-> [i \in 1 .. (MaxInput - 2) |-> JSONRecords(i)]]}
    \cup
    \* access log whose second line is older than the first or of its tick
    {[cfg |-> Config("late", 1, 2, 0, 0, "accesslog", FALSE, 0, 0, FALSE),
      input |-> [i \in 1 .. (MaxInput - 2) |-> LateRecords(i)]]}
    \cup
    \* record stream on the data clock, the pause key in use
    {[cfg |-> Config("jpause", 1, 2, 0, 0, "json", FALSE, 0, 0, TRUE),
      input |-> [i \in 1 .. (MaxInput - 2) |-> PausedRecords(i)]]}
    \cup
    \* paced plain text with a line limit, the pause key in use
    {[cfg |-> Config("pace", 1, 2, 0, 0, "text", FALSE, MaxInput - 3, 1, TRUE),
      input |-> [i \in 1 .. (MaxInput - 2) |-> {Rec("a", 0, <<"none">>)}]]}

\* read counts the well-formed records taken from the input; adds and aged
\* count the events added and the Ticks calls made since pause was switched on
InitReader ==
    [pc |-> "next", last |-> 0, prevEvent |-> 0, useEventTime |-> FALSE, n |-> 0,
     cur |-> Rec("a", 0, <<"none">>), t |-> 0, err |-> FALSE, read |-> 0,
     adds |-> 0, aged |-> 0]

InitTicker == [pc |-> "recv", last |-> 0, t |-> 0, aged |-> 0]

InitObs == [op |-> "none", by |-> "none", from |-> 0, to |-> 0, seen |-> FALSE]

InitUI == [pc |-> "idle", now |-> 0, segs |-> <<>>, limit |-> 0, ret |-> "none"]

InitWith(sc) ==
    /\ cfg = sc.cfg
    /\ clock = ClockStart
    /\ input = sc.input
    /\ sketch = NewSketch(sc.cfg.historyLen)
    /\ sketchMu = "none"
    /\ timestampsFromData = FALSE
    /\ paused = FALSE
    /\ waiters = {}
    /\ rd = InitReader
    /\ tk = InitTicker
    /\ ui = InitUI
    /\ ranker = NewIncrementalRanker
    /\ listItems = <<>>
    /\ latestTick = 0
    /\ obs = InitObs
    /\ metrics = SetEnabled(NewLatencyMetrics(MinStatsWindow), sc.cfg.stats)
    /\ mem = InitMem

Init == \E sc \in Scenarios : InitWith(sc)

\* ------------------------------------------------------------ shared pieces
\* a Lock() that never waits
SketchLockAlways(mu) == TRUE

\* sketchMu.Lock() returns when nobody holds the mutex
SketchLockFree(mu) == mu = "none"

\* a tick count that is one short
TicksBetweenShort(t, last) == ((t - last) \div TickSize) - 1

\* doSketchTicks: int(t.Sub(last) / config.TickSize)
TicksBetween(t, last) == (t - last) \div TickSize

\* a Broadcast that wakes nobody
BroadcastNone(w) == w

\* togglePause: pauseCond.Broadcast() wakes every parked goroutine
Broadcast(w) == {}

\* one more sketch operation of an actor since pause was switched on
SincePause(n) == IF paused THEN Min2(n + 1, 2) ELSE 0

\* the sketch operations as the properties see them
NoteTicks(by, from, to) ==
    [op |-> "ticks", by |-> by, from |-> from, to |-> to, seen |-> FALSE]
NoteAdd(by, n) == [op |-> "add", by |-> by, from |-> n, to |-> n + 1, seen |-> FALSE]

\* ----------------------------------------------------------- ingest reader
\* a driver that takes the time of every event as its last time, an older
\* one too
ReaderDoSketchTicksFollow(r, et) ==
    LET t == Truncated(et) IN
    IF r.last # 0 /\ TicksBetween(t, r.last) > 0
    THEN /\ rd' = [r EXCEPT !.prevEvent = et, !.t = t, !.pc = "tick_lock"]
         /\ UNCHANGED latestTick
    ELSE /\ rd' = [r EXCEPT !.prevEvent = et, !.last = t, !.pc = "add_lock"]
         /\ latestTick' = t

\* the reader with the timestamp of its record accepted: prevEvent is set and
\* doSketchTicks(eventTime, last) runs up to its sketchMu.Lock()
ReaderDoSketchTicks(r, et) ==
    LET t == Truncated(et) IN
    IF r.last = 0
    THEN /\ rd' = [r EXCEPT !.prevEvent = et, !.last = t, !.pc = "add_lock"]
         /\ latestTick' = t
    ELSE IF TicksBetween(t, r.last) > 0
    THEN /\ rd' = [r EXCEPT !.prevEvent = et, !.t = t, !.pc = "tick_lock"]
         /\ UNCHANGED latestTick
    ELSE /\ rd' = [r EXCEPT !.prevEvent = et, !.pc = "add_lock"]
         /\ latestTick' = r.last

\* a replay that goes on without a timestamp
ReplayNeedsTimeNever(replay, et) == FALSE

\* config.Replay && eventTime.IsZero(): the error return of a replay
ReplayNeedsTime(replay, et) == replay /\ et = 0

\* the record is taken apart: the timestamp is read, the first valid one
\* switches to the data clock, a replay sleeps before the time advances
ReaderParse(r, rec) ==
    LET et == EventTime(rec) IN
    IF cfg.mode = "text"
    THEN /\ rd' = [r EXCEPT !.pc = "add_lock"]
         /\ UNCHANGED <<timestampsFromData, latestTick>>
    ELSE IF ~rec.ok
    THEN \* dec.Decode fails: return err; strings.Cut finds no delimiter: continue
         /\ rd' = IF cfg.mode = "json" THEN [r EXCEPT !.pc = "done", !.err = TRUE]
                                       ELSE [r EXCEPT !.pc = "next"]
         /\ UNCHANGED <<timestampsFromData, latestTick>>
    ELSE IF et # 0
    THEN /\ timestampsFromData' = IF r.useEventTime THEN timestampsFromData ELSE TRUE
         /\ IF cfg.replay /\ r.prevEvent # 0 /\ et > r.prevEvent
            THEN /\ rd' = [r EXCEPT !.useEventTime = TRUE, !.pc = "sleep"]
                 /\ UNCHANGED latestTick
            ELSE ReaderDoSketchTicks([r EXCEPT !.useEventTime = TRUE], et)
    ELSE IF ReplayNeedsTime(cfg.replay, et)
    THEN /\ rd' = [r EXCEPT !.pc = "done", !.err = TRUE]
         /\ UNCHANGED <<timestampsFromData, latestTick>>
    ELSE /\ rd' = [r EXCEPT !.pc = "add_lock"]
         /\ timestampsFromData' =
               IF cfg.mode = "json" /\ ~r.useEventTime THEN FALSE ELSE timestampsFromData
         /\ UNCHANGED latestTick

\* a line limit that lets one more record through
AtMaxLinesLate(r) == cfg.maxLines > 0 /\ r.n > cfg.maxLines

\* config.MaxLines > 0 && n >= config.MaxLines
AtMaxLines(r) == cfg.maxLines > 0 /\ r.n >= cfg.maxLines

\* a record the reader can count: every line of plain text; else one that
\* parses and, in a replay, carries a valid timestamp
WellFormed(rec) ==
    cfg.mode = "text" \/ (rec.ok /\ (cfg.replay => EventTime(rec) # 0))

\* scanner.Scan() / dec.Decode returned rec
Taken(r, rec) ==
    [r EXCEPT !.cur = rec, !.read = IF WellFormed(rec) THEN @ + 1 ELSE @]

\* readTextItems / readAccessLogItems after waitIfPaused returned: the
\* maxLines check, then the scanned line
LineAfterWait(r) ==
    IF AtMaxLines(r)
    THEN /\ rd' = [r EXCEPT !.pc = "done"]
         /\ UNCHANGED <<timestampsFromData, latestTick>>
    ELSE ReaderParse(r, r.cur)

\* readJSONItems after waitIfPaused returned: the maxLines check, then dec.Decode
JSONAfterWait(r) ==
    IF AtMaxLines(r) \/ input = <<>>
    THEN /\ rd' = [r EXCEPT !.pc = "done"]
         /\ UNCHANGED <<input, timestampsFromData, latestTick>>
    ELSE /\ input' = Tail(input)
         /\ \E rec \in Head(input) : ReaderParse(Taken(r, rec), rec)

\* a waitIfPaused that returns while paused is set
ReaderParkSkipped(r) ==
    /\ rd' = [r EXCEPT !.pc = "add_lock"]
    /\ waiters' = waiters

\* waitIfPaused finds paused set: pauseCond.Wait()
ReaderPark(r) ==
    /\ rd' = [r EXCEPT !.pc = "parked"]
    /\ waiters' = waiters \cup {"reader"}

\* one round of the read loop up to its first lock or sleep: scanner.Scan()
\* and waitIfPaused() (in this order for lines, the other way round for
\* JSON records), the maxLines check, the timestamp
ReaderNext ==
    /\ rd.pc = "next"
    /\ IF cfg.mode = "json"
       THEN IF paused
            THEN /\ ReaderPark(rd)
                 /\ UNCHANGED <<input, timestampsFromData, latestTick>>
            ELSE /\ JSONAfterWait(rd)
                 /\ UNCHANGED waiters
       ELSE IF input = <<>>
            THEN /\ rd' = [rd EXCEPT !.pc = "done"]
                 /\ UNCHANGED <<input, waiters, timestampsFromData, latestTick>>
            ELSE /\ input' = Tail(input)
                 /\ \E rec \in Head(input) :
                      IF paused
                      THEN /\ ReaderPark(Taken(rd, rec))
                           /\ UNCHANGED <<timestampsFromData, latestTick>>
                      ELSE /\ LineAfterWait(Taken(rd, rec))
                           /\ UNCHANGED waiters
    /\ UNCHANGED <<cfg, metrics, mem, clock, sketch, sketchMu, paused, tk, ui, ranker, listItems, obs>>

\* pauseCond.Wait() returns after a Broadcast; the loop of waitIfPaused looks
\* at paused again
ReaderResume ==
    /\ rd.pc = "parked"
    /\ "reader" \notin waiters
    /\ IF paused
       THEN /\ ReaderPark(rd)
            /\ UNCHANGED <<input, timestampsFromData, latestTick>>
       ELSE /\ UNCHANGED waiters
            /\ IF cfg.mode = "json"
               THEN JSONAfterWait(rd)
               ELSE LineAfterWait(rd) /\ UNCHANGED input
    /\ UNCHANGED <<cfg, metrics, mem, clock, sketch, sketchMu, paused, tk, ui, ranker, listItems, obs>>

\* the replay sleep between two events is over
ReaderSleep ==
    /\ rd.pc = "sleep"
    /\ ReaderDoSketchTicks(rd, EventTime(rd.cur))
    /\ UNCHANGED <<cfg, metrics, mem, clock, input, sketch, sketchMu, timestampsFromData, paused, waiters,
                   tk, ui, ranker, listItems, obs>>

\* doSketchTicks: m.sketchMu.Lock()
ReaderTickLock ==
    /\ rd.pc = "tick_lock"
    /\ SketchLockFree(sketchMu)
    /\ sketchMu' = "reader"
    /\ rd' = [rd EXCEPT !.pc = "tick"]
    /\ UNCHANGED <<cfg, metrics, mem, clock, input, sketch, timestampsFromData, paused, waiters,
                   tk, ui, ranker, listItems, latestTick, obs>>

\* doSketchTicks: m.sketch.Ticks(ticks); m.sketchMu.Unlock(); last = t
ReaderTick ==
    /\ rd.pc = "tick"
    /\ sketch' = SketchTicks(sketch, TicksBetween(rd.t, rd.last))
    /\ sketchMu' = "none"
    /\ obs' = NoteTicks("reader", rd.last, rd.t)
    /\ rd' = [rd EXCEPT !.last = rd.t, !.pc = "add_lock", !.aged = SincePause(@)]
    /\ latestTick' = rd.t
    /\ UNCHANGED <<cfg, metrics, mem, clock, input, timestampsFromData, paused, waiters,
                   tk, ui, ranker, listItems>>

\* m.sketchMu.Lock() before Incr / Add
ReaderAddLock ==
    /\ rd.pc = "add_lock"
    /\ SketchLockFree(sketchMu)
    /\ sketchMu' = "reader"
    /\ rd' = [rd EXCEPT !.pc = "add"]
    /\ UNCHANGED <<cfg, metrics, mem, clock, input, sketch, timestampsFromData, paused, waiters,
                   tk, ui, ranker, listItems, latestTick, obs>>

\* the count field taken as it is
IncrementRaw(rec) == rec.count

\* the increment of a record: 1 for a line, max(count, 1) for a JSON record
Increment(rec) == IF cfg.mode = "json" /\ rec.count >= 1 THEN rec.count ELSE 1

\* a pace sleep follows the record unless a replay paces the input
Paced == cfg.pace > 0 /\ ~(cfg.replay /\ cfg.mode # "text")

\* m.sketch.Incr(item) / m.sketch.Add(item, inc); m.sketchMu.Unlock(); n++
ReaderAdd ==
    /\ rd.pc = "add"
    /\ sketch' \in SketchAdd(sketch, cfg.k, rd.cur.item, Increment(rd.cur))
    /\ sketchMu' = "none"
    /\ obs' = NoteAdd("reader", rd.n)
    /\ rd' = [rd EXCEPT !.n = @ + 1, !.pc = IF Paced THEN "pace" ELSE "next",
                        !.adds = SincePause(@)]
    /\ UNCHANGED <<cfg, metrics, mem, clock, input, timestampsFromData, paused, waiters,
                   tk, ui, ranker, listItems, latestTick>>

\* time.Sleep(config.Pace) is over
ReaderPace ==
    /\ rd.pc = "pace"
    /\ rd' = [rd EXCEPT !.pc = "next"]
    /\ UNCHANGED <<cfg, metrics, mem, clock, input, sketch, sketchMu, timestampsFromData, paused, waiters,
                   tk, ui, ranker, listItems, latestTick, obs>>

Reader ==
    \/ ReaderNext \/ ReaderResume \/ ReaderSleep
    \/ ReaderTickLock \/ ReaderTick \/ ReaderAddLock \/ ReaderAdd \/ ReaderPace

\* ------------------------------------------------------------- wall ticker
\* the tick times of time.NewTicker(config.TickSize)
TickerTimes == {t \in (ClockStart + 1) .. MaxClock : (t - ClockStart) % TickSize = 0}

\* sketchTickCmd after waitIfPaused returned: the tick is dropped when the
\* data clock is on; else latestTick is set and doSketchTicks(t, last) runs up
\* to its sketchMu.Lock()
TickerAfterWait(r) ==
    IF timestampsFromData
    THEN /\ tk' = [r EXCEPT !.pc = "recv"]
         /\ UNCHANGED latestTick
    ELSE LET t == Truncated(r.t) IN
         /\ latestTick' = t
         /\ IF r.last = 0
            THEN tk' = [r EXCEPT !.last = t, !.pc = "recv"]
            ELSE IF TicksBetween(t, r.last) > 0
            THEN tk' = [r EXCEPT !.pc = "tick_lock"]
            ELSE tk' = [r EXCEPT !.pc = "recv"]

TickerPark(r) ==
    /\ tk' = [r EXCEPT !.pc = "parked"]
    /\ waiters' = waiters \cup {"ticker"}

\* case t := <-ticker.C: a tick later than the one received before, which the
\* wall clock has reached; then waitIfPaused and the data-clock check
TickerRecv ==
    /\ tk.pc = "recv"
    /\ \E t \in TickerTimes :
         /\ t > tk.t
         /\ clock' = Max2(clock, t)
         /\ IF paused
            THEN TickerPark([tk EXCEPT !.t = t]) /\ UNCHANGED latestTick
            ELSE TickerAfterWait([tk EXCEPT !.t = t]) /\ UNCHANGED waiters
    /\ UNCHANGED <<cfg, metrics, mem, input, sketch, sketchMu, timestampsFromData, paused,
                   rd, ui, ranker, listItems, obs>>

TickerResume ==
    /\ tk.pc = "parked"
    /\ "ticker" \notin waiters
    /\ IF paused
       THEN TickerPark(tk) /\ UNCHANGED latestTick
       ELSE TickerAfterWait(tk) /\ UNCHANGED waiters
    /\ UNCHANGED <<cfg, metrics, mem, clock, input, sketch, sketchMu, timestampsFromData, paused,
                   rd, ui, ranker, listItems, obs>>

\* doSketchTicks: m.sketchMu.Lock()
TickerTickLock ==
    /\ tk.pc = "tick_lock"
    /\ SketchLockFree(sketchMu)
    /\ sketchMu' = "ticker"
    /\ tk' = [tk EXCEPT !.pc = "tick"]
    /\ UNCHANGED <<cfg, metrics, mem, clock, input, sketch, timestampsFromData, paused, waiters,
                   rd, ui, ranker, listItems, latestTick, obs>>

\* doSketchTicks: m.sketch.Ticks(ticks); m.sketchMu.Unlock(); last = t
TickerTick ==
    /\ tk.pc = "tick"
    /\ sketch' = SketchTicks(sketch, TicksBetween(Truncated(tk.t), tk.last))
    /\ sketchMu' = "none"
    /\ obs' = NoteTicks("ticker", tk.last, Truncated(tk.t))
    /\ tk' = [tk EXCEPT !.last = Truncated(tk.t), !.pc = "recv", !.aged = SincePause(@)]
    /\ UNCHANGED <<cfg, metrics, mem, clock, input, timestampsFromData, paused, waiters,
                   rd, ui, ranker, listItems, latestTick>>

Ticker == TickerRecv \/ TickerResume \/ TickerTickLock \/ TickerTick

\* ------------------------------------------------------------ UI goroutine
\* Update(ItemsTickMsg) while not paused: updateTopKIncremental enters
\* ranker.Refresh(start, 0, sortedFn, updateCountsFn) with start = time.Now()
UItemsTick ==
    /\ ui.pc = "idle"
    /\ ~paused
    /\ obs' = [obs EXCEPT !.seen = TRUE]
    /\ IF NeedFull(ranker, clock, cfg.fullRefresh)
       THEN ui' = [ui EXCEPT !.now = clock, !.pc = "sorted_lock"]
       ELSE LET n == Len(ranker.items)
                limit == PartialLimit(n, cfg.partialSize, 0, cfg.k)
            IN ui' = [ui EXCEPT !.now = clock, !.limit = limit,
                                !.segs = PartialSegments(n, ranker.partialCursor, limit),
                                !.pc = "seg_lock"]
    /\ UNCHANGED <<cfg, metrics, mem, clock, input, sketch, sketchMu, timestampsFromData, paused, waiters,
                   rd, tk, ranker, listItems, latestTick>>

\* sortedFn: m.sketchMu.Lock()
USortedLock ==
    /\ ui.pc = "sorted_lock"
    /\ SketchLockFree(sketchMu)
    /\ sketchMu' = "ui"
    /\ ui' = [ui EXCEPT !.pc = "sorted"]
    /\ UNCHANGED <<cfg, metrics, mem, clock, input, sketch, timestampsFromData, paused, waiters,
                   rd, tk, ranker, listItems, latestTick, obs>>

\* the full refresh of Refresh: the ranker's new state
FullRefresh(r, discovered, k, now) ==
    [items |-> Truncate(discovered, k), lastFullRefresh |-> now, partialCursor |-> 0]

\* sortedFn returns, the full-refresh branch of Refresh returns the clone and
\* updateTopKIncremental publishes it
USorted ==
    /\ ui.pc = "sorted"
    /\ sketchMu' = "none"
    /\ ranker' = FullRefresh(ranker, SortedSlice(sketch), cfg.k, ui.now)
    /\ ui' = [ui EXCEPT !.now = 0, !.ret = "full", !.pc = "idle"]
    /\ listItems' = ranker'.items
    /\ UNCHANGED <<cfg, metrics, mem, clock, input, sketch, timestampsFromData, paused, waiters,
                   rd, tk, latestTick, obs>>

\* updateCountsFn: m.sketchMu.Lock()
USegLock ==
    /\ ui.pc = "seg_lock"
    /\ SketchLockFree(sketchMu)
    /\ sketchMu' = "ui"
    /\ ui' = [ui EXCEPT !.pc = "seg"]
    /\ UNCHANGED <<cfg, metrics, mem, clock, input, sketch, timestampsFromData, paused, waiters,
                   rd, tk, ranker, listItems, latestTick, obs>>

\* the end of a partial refresh: cursor, stable sort, zero trim
PartialFinish(r, items, limit) ==
    LET sorted == SortAndTrim(items)
    IN [r EXCEPT !.items = sorted,
                 !.partialCursor = IF Len(sorted) = 0 THEN 0
                                   ELSE NextCursor(Len(items), r.partialCursor, limit)]

\* updateCountsFn on one segment; after the last segment the partial-refresh
\* branch of Refresh returns the clone and updateTopKIncremental publishes it
USeg ==
    /\ ui.pc = "seg"
    /\ sketchMu' = "none"
    /\ LET items == UpdateCounts(ranker.items, Head(ui.segs), sketch)
       IN IF Len(ui.segs) > 1
          THEN /\ ranker' = [ranker EXCEPT !.items = items]
               /\ ui' = [ui EXCEPT !.segs = Tail(ui.segs), !.pc = "seg_lock"]
               /\ UNCHANGED listItems
          ELSE /\ ranker' = PartialFinish(ranker, items, ui.limit)
               /\ ui' = [ui EXCEPT !.now = 0, !.segs = <<>>, !.limit = 0,
                                   !.ret = "partial", !.pc = "idle"]
               /\ listItems' = ranker'.items
    /\ UNCHANGED <<cfg, metrics, mem, clock, input, sketch, timestampsFromData, paused, waiters,
                   rd, tk, latestTick, obs>>

\* Update(ItemCountsTickMsg) while not paused: updateListItemCountsFromSketch
\* copies m.listItems and calls m.sketchMu.Lock()
UCountsLock ==
    /\ ui.pc = "idle"
    /\ ~paused
    /\ SketchLockFree(sketchMu)
    /\ sketchMu' = "ui"
    /\ ui' = [ui EXCEPT !.pc = "counts"]
    /\ UNCHANGED <<cfg, metrics, mem, clock, input, sketch, timestampsFromData, paused, waiters,
                   rd, tk, ranker, listItems, latestTick, obs>>

\* updateListItemCountsFromSketch: the list with every count read again
RefreshedCounts(items, s) == UpdateCounts(items, <<1, Len(items)>>, s)

\* items[i].Count = m.sketch.Count(items[i].Item) for every i; m.listItems = items
UCounts ==
    /\ ui.pc = "counts"
    /\ sketchMu' = "none"
    /\ listItems' = RefreshedCounts(listItems, sketch)
    /\ ui' = [ui EXCEPT !.ret = "counts", !.pc = "idle"]
    /\ UNCHANGED <<cfg, metrics, mem, clock, input, sketch, timestampsFromData, paused, waiters,
                   rd, tk, ranker, latestTick, obs>>

\* Update(PlotTickMsg): updatePlot copies m.listItems, returns when the copy is
\* empty, else calls m.sketchMu.Lock()
UPlotLock ==
    /\ ui.pc = "idle"
    /\ listItems # <<>>
    /\ SketchLockFree(sketchMu)
    /\ sketchMu' = "ui"
    /\ ui' = [ui EXCEPT !.pc = "plot"]
    /\ UNCHANGED <<cfg, metrics, mem, clock, input, sketch, timestampsFromData, paused, waiters,
                   rd, tk, ranker, listItems, latestTick, obs>>

\* updatePlot: fillSeriesFromSketch for every item; m.sketchMu.Unlock()
UPlot ==
    /\ ui.pc = "plot"
    /\ sketchMu' = "none"
    /\ ui' = [ui EXCEPT !.pc = "idle"]
    /\ UNCHANGED <<cfg, metrics, mem, clock, input, sketch, timestampsFromData, paused, waiters,
                   rd, tk, ranker, listItems, latestTick, obs>>

\* Update(KeyMsg p): togglePause up to pauseMu.Unlock()
UTogglePause ==
    /\ ui.pc = "idle"
    /\ cfg.keys
    /\ paused' = ~paused
    /\ ui' = [ui EXCEPT !.pc = "broadcast"]
    /\ rd' = [rd EXCEPT !.adds = 0, !.aged = 0]
    /\ tk' = [tk EXCEPT !.aged = 0]
    /\ UNCHANGED <<cfg, metrics, mem, clock, input, sketch, sketchMu, timestampsFromData, waiters,
                   ranker, listItems, latestTick, obs>>

\* togglePause: m.pauseCond.Broadcast()
UBroadcast ==
    /\ ui.pc = "broadcast"
    /\ waiters' = Broadcast(waiters)
    /\ ui' = [ui EXCEPT !.pc = "idle"]
    /\ UNCHANGED <<cfg, metrics, mem, clock, input, sketch, sketchMu, timestampsFromData, paused,
                   rd, tk, ranker, listItems, latestTick, obs>>

UI ==
    \/ UItemsTick \/ USortedLock \/ USorted \/ USegLock \/ USeg
    \/ UCountsLock \/ UCounts \/ UPlotLock \/ UPlot
    \/ UTogglePause \/ UBroadcast

Next == Reader \/ Ticker \/ UI

Spec == Init /\ [][Next]_vars

\* the Go scheduler runs a goroutine that can run: a woken waiter returns from
\* Wait, and togglePause reaches its Broadcast
FairSpec ==
    /\ Spec
    /\ WF_vars(ReaderResume)
    /\ WF_vars(TickerResume)
    /\ WF_vars(UBroadcast)

\* -------------------------------------------------------------- properties
\* s is in the order of Refresh: count descending, ties by item ascending
Sorted(s) == \A i \in 1 .. (Len(s) - 1) : ItemLess(s[i], s[i + 1])

\* m.listItems is the slice the last Refresh returned
RefreshReturned == ui.pc = "idle" /\ ui.ret \in {"full", "partial"}

\* the last Refresh began after the last change of the sketch and has returned
RefreshedSince == RefreshReturned /\ obs.seen

\* the last change of the sketch was one Ticks(n) with n >= historyLen
Wiped == obs.op = "ticks" /\ obs.to - obs.from >= cfg.historyLen * TickSize

AllCountsZero == \A x \in Items : Count(sketch, x) = 0

TickerApplies == tk.pc = "tick" /\ tk'.pc = "recv"

\* C2: once timestampsFromData is true the wall ticker applies no Ticks to
\* the sketch
C2_NoWallTicksOnDataClock == [][TickerApplies => ~timestampsFromData]_vars

\* C3 as stated: after ingest and a Ticks(n >= historyLen) with no ingest
\* since, the next Refresh returns the empty list and all counts are 0
C3_RefreshEmptyAfterWipe ==
    (rd.n > 0 /\ Wiped /\ RefreshedSince) => (listItems = <<>> /\ AllCountsZero)

\* C3 amended: after ingest and a Ticks(n >= historyLen) with no ingest since,
\* all counts are 0 and a full refresh returns the empty list; a partial
\* refresh re-reads only its budget of entries and may return the others
C3_FullRefreshEmptyAfterWipe ==
    (rd.n > 0 /\ Wiped /\ RefreshedSince) =>
        /\ AllCountsZero
        /\ ui.ret = "full" => listItems = <<>>
        /\ ui.ret = "partial" => Len(listItems) <= cfg.k - AutoBudget(cfg.k)

\* a full refresh after the wipe of a sketch that had ranked entries
C3_Witness ==
    /\ rd.n > 0
    /\ Wiped
    /\ RefreshedSince
    /\ ui.ret = "full"
    /\ listItems = <<>>

\* C4: right after the time driver advanced the sketch by n >= historyLen
\* ticks in one Ticks(n), Count(X) = 0 for every item X
C4_WipeZeroesCounts == Wiped => AllCountsZero

\* the reader wiped the window after it had ingested
C4_Witness == Wiped /\ obs.by = "reader" /\ rd.n > 0

\* the third record of the stream x@0, x@0, y@5 has just been added
AfterIngest == cfg.name = "window" /\ obs.op = "add" /\ obs.from = 2

\* the reader has just advanced the sketch to the event at 12s
AfterAdvance ==
    cfg.name = "window" /\ obs.op = "ticks" /\ obs.by = "reader" /\ obs.to = UnixTime(24)

\* C5 as stated: after the stream x@0, x@0, y@5 Count(x) = 2 and Count(y) = 1,
\* and after the advance to 12s every count is 0
C5_AllZeroAt12 ==
    /\ AfterIngest => (Count(sketch, "a") = 2 /\ Count(sketch, "c") = 1)
    /\ AfterAdvance => AllCountsZero

\* C5 amended: after the stream Count(x) = 2 and Count(y) = 1; after the
\* advance to 12s Count(x) = 0, and Count(y) = 1 as y at 5s is inside the
\* window of 10s
C5_OnlyXExpiredAt12 ==
    /\ AfterIngest => (Count(sketch, "a") = 2 /\ Count(sketch, "c") = 1)
    /\ AfterAdvance => (Count(sketch, "a") = 0 /\ Count(sketch, "c") = 1)

C5_Witness == AfterAdvance /\ rd.n = 3 /\ Count(sketch, "c") = 1

\* x has the greatest current count in the sketch
ArgMax(x) == \A y \in Items : Count(sketch, x) >= Count(sketch, y)

\* C6 as stated: with k = 1 a Refresh returns at most one item, and the item
\* is the argmax of the sketch
C6_TopOneIsArgMax ==
    (cfg.k = 1 /\ RefreshedSince) =>
        /\ Len(listItems) <= 1
        /\ listItems # <<>> => ArgMax(listItems[1].item)

\* C6 amended: with k = 1 a Refresh returns at most one item; a full refresh
\* returns the head of SortedSlice, a partial refresh the item ranked before
\* with its current count, which need not be the argmax
C6_TopOneIsRankedItem ==
    (cfg.k = 1 /\ RefreshedSince) =>
        /\ Len(listItems) <= 1
        /\ ui.ret = "full" => listItems = Truncate(SortedSlice(sketch), 1)
        /\ (ui.ret = "partial" /\ listItems # <<>>) =>
              listItems[1].count = Count(sketch, listItems[1].item)

\* a partial refresh returned a, and b has the greater count
C6_Witness ==
    /\ cfg.k = 1
    /\ RefreshedSince
    /\ ui.ret = "partial"
    /\ listItems = <<HeapItem("a", 1)>>
    /\ Count(sketch, "b") = 2

\* C7: every list published to m.listItems is sorted descending by count
C7_PublishedSortedDesc ==
    \A i \in 1 .. (Len(listItems) - 1) : listItems[i].count >= listItems[i + 1].count

\* the reader has advanced the sketch for its event and has not added it yet
BeforeAdd == rd.pc = "add_lock" /\ obs.op = "ticks" /\ obs.by = "reader"

\* C8: no Ticks is applied between the reader's time advance for an event
\* and the Incr/Add of the event
C8_NoTicksBeforeAdd == [][BeforeAdd => ~TickerApplies]_vars

\* C9: a goroutine inside a sketch operation holds sketchMu, and the holder
\* of sketchMu is inside a sketch operation, not at a read, sleep or pause wait
C9_SketchOpsUnderLock ==
    /\ rd.pc \in {"tick", "add"} <=> sketchMu = "reader"
    /\ tk.pc = "tick" <=> sketchMu = "ticker"
    /\ ui.pc \in {"sorted", "seg", "counts", "plot"} <=> sketchMu = "ui"

\* the UI reads the bucket history while the reader and the ticker wait for
\* the lock
C9_Witness ==
    /\ sketchMu = "ui"
    /\ ui.pc = "plot"
    /\ rd.pc = "add_lock"
    /\ tk.pc = "tick_lock"

\* C10: a reader or ticker parked in waitIfPaused while the pause is off
\* leaves the wait, unless the pause is switched on again first
C10_ParkedProceeds ==
    /\ (rd.pc = "parked" /\ ~paused) ~> (rd.pc # "parked" \/ paused)
    /\ (tk.pc = "parked" /\ ~paused) ~> (tk.pc # "parked" \/ paused)

\* reader and ticker were woken by the Broadcast of the toggle that ended
\* the pause
C10_Witness ==
    /\ ~paused
    /\ rd.pc = "parked"
    /\ tk.pc = "parked"
    /\ waiters = {}

\* ------------------------------------------------- metrics under concurrency
\* The ingest reader observes every event it has added to the sketch, while
\* the UI goroutine observes its refreshes and renders snapshots.  The calls of
\* latencyMetrics are taken one atomic operation or one critical section at a
\* time.
MetricsOthers ==
    <<cfg, input, sketchMu, timestampsFromData, paused, waiters, tk, ranker,
      listItems, latestTick, obs, mem>>

MetricsUI ==
    [pc |-> "idle", lag |-> 0, records |-> 0, last |-> 0, snap |-> EmptySnapshot]

MetricsInit ==
    \E stats \in BOOLEAN, window \in StatsWindows :
        /\ cfg = [Config("metrics", 1, 2, 0, 0, "text", FALSE, 0, 0, FALSE)
                     EXCEPT !.stats = stats]
        /\ clock = ClockStart
        /\ input = <<>>
        /\ sketch = NewSketch(2)
        /\ sketchMu = "none"
        /\ timestampsFromData = FALSE
        /\ paused = FALSE
        /\ waiters = {}
        /\ rd = InitReader
        /\ tk = InitTicker
        /\ ui = MetricsUI
        /\ ranker = NewIncrementalRanker
        /\ listItems = <<>>
        /\ latestTick = 0
        /\ obs = InitObs
        /\ metrics = SetEnabled(NewLatencyMetrics(window), stats)
        /\ mem = InitMem

\* readTextItems: the next line arrives, at once or after a while;
\* now := time.Now(); Lock; Incr(item); Unlock
MIngest ==
    /\ rd.pc = "next"
    /\ rd.n < MaxObserve
    /\ \E d \in {0, 1} : clock' = clock + d
    /\ sketch' \in SketchAdd(sketch, cfg.k, "a", 1)
    /\ rd' = [rd EXCEPT !.pc = "observe", !.t = clock']
    /\ UNCHANGED <<ui, metrics>>
    /\ UNCHANGED MetricsOthers

\* observeIngest: isEnabled, ingestedRecords.Add(1); the caller's n++ on return
MObserveCount ==
    /\ rd.pc = "observe"
    /\ IF metrics.enabled
       THEN /\ metrics' = [metrics EXCEPT !.ingestedRecords = CountAdd(@)]
            /\ rd' = [rd EXCEPT !.pc = "obs_store"]
       ELSE /\ rd' = [rd EXCEPT !.pc = "next", !.n = @ + 1]
            /\ UNCHANGED metrics
    /\ UNCHANGED <<clock, sketch, ui>>
    /\ UNCHANGED MetricsOthers

\* observeIngest: lastIngestNs.Store(nowNs)
MObserveStore ==
    /\ rd.pc = "obs_store"
    /\ metrics' = [metrics EXCEPT !.lastIngestNs = rd.t]
    /\ rd' = [rd EXCEPT !.pc = "obs_lock"]
    /\ UNCHANGED <<clock, sketch, ui>>
    /\ UNCHANGED MetricsOthers

\* observeIngest: mu.Lock()
MObserveLock ==
    /\ rd.pc = "obs_lock"
    /\ metrics.mu = "none"
    /\ metrics' = [metrics EXCEPT !.mu = "reader"]
    /\ rd' = [rd EXCEPT !.pc = "obs_ring"]
    /\ UNCHANGED <<clock, sketch, ui>>
    /\ UNCHANGED MetricsOthers

\* observeIngest: ingestRecent.add(nowNs); mu.Unlock(); the caller's n++
MObserveRing ==
    /\ rd.pc = "obs_ring"
    /\ metrics' = [metrics EXCEPT !.ingestRecent = RingAdd(@, rd.t), !.mu = "none"]
    /\ rd' = [rd EXCEPT !.pc = "next", !.n = @ + 1]
    /\ UNCHANGED <<clock, sketch, ui>>
    /\ UNCHANGED MetricsOthers

\* observeTopKRefresh(time.Now()) up to lastIngestNs.Load() and the lag
MRefreshLag ==
    /\ ui.pc = "idle"
    /\ metrics.enabled
    /\ metrics.rankLagNs.count < MaxObserve
    /\ ui' = [ui EXCEPT !.pc = "lag_lock", !.lag = RankLag(metrics.lastIngestNs, clock)]
    /\ UNCHANGED <<clock, sketch, rd, metrics>>
    /\ UNCHANGED MetricsOthers

\* observeTopKRefresh: mu.Lock()
MRefreshLock ==
    /\ ui.pc = "lag_lock"
    /\ metrics.mu = "none"
    /\ metrics' = [metrics EXCEPT !.mu = "ui"]
    /\ ui' = [ui EXCEPT !.pc = "lag_ring"]
    /\ UNCHANGED <<clock, sketch, rd>>
    /\ UNCHANGED MetricsOthers

\* observeTopKRefresh: rankLagNs.add(lagNs); mu.Unlock()
MRefreshRing ==
    /\ ui.pc = "lag_ring"
    /\ metrics' = [metrics EXCEPT !.rankLagNs = RingAdd(@, ui.lag), !.mu = "none"]
    /\ ui' = [ui EXCEPT !.pc = "idle", !.lag = 0]
    /\ UNCHANGED <<clock, sketch, rd>>
    /\ UNCHANGED MetricsOthers

\* snapshot: isEnabled, ingestedRecords.Load()
MSnapshotRecords ==
    /\ ui.pc = "idle"
    /\ IF metrics.enabled
       THEN ui' = [ui EXCEPT !.pc = "snap_last", !.records = metrics.ingestedRecords,
                             !.snap = EmptySnapshot]
       ELSE ui' = [ui EXCEPT !.snap = EmptySnapshot]
    /\ UNCHANGED <<clock, sketch, rd, metrics>>
    /\ UNCHANGED MetricsOthers

\* snapshot: lastIngestNs.Load()
MSnapshotLast ==
    /\ ui.pc = "snap_last"
    /\ ui' = [ui EXCEPT !.pc = "snap_lock", !.last = metrics.lastIngestNs]
    /\ UNCHANGED <<clock, sketch, rd, metrics>>
    /\ UNCHANGED MetricsOthers

\* snapshot: mu.Lock()
MSnapshotLock ==
    /\ ui.pc = "snap_lock"
    /\ metrics.mu = "none"
    /\ metrics' = [metrics EXCEPT !.mu = "ui"]
    /\ ui' = [ui EXCEPT !.pc = "snap_ring"]
    /\ UNCHANGED <<clock, sketch, rd>>
    /\ UNCHANGED MetricsOthers

\* snapshot: both rings are read, mu.Unlock(), the lag against time.Now() and
\* the returned value
MSnapshotRing ==
    /\ ui.pc = "snap_ring"
    /\ metrics' = [metrics EXCEPT !.mu = "none"]
    /\ LET ing == RingSnapshot(metrics.ingestRecent)
           lag == Percentile95Duration(metrics.rankLagNs)
       IN  ui' = [pc |-> "idle", lag |-> 0, records |-> 0, last |-> 0,
                  snap |-> [records |-> ui.records,
                            ingestRps |-> RecentRate(ing.oldest, ing.newest, ing.n),
                            ingestSamples |-> ing.n,
                            ingestLag |-> IF ui.last > 0 /\ clock > ui.last
                                          THEN clock - ui.last ELSE 0,
                            rankLagP95 |-> lag.p95,
                            rankLagSamples |-> lag.n]]
    /\ UNCHANGED <<clock, sketch, rd>>
    /\ UNCHANGED MetricsOthers

MetricsNext ==
    \/ MIngest \/ MObserveCount \/ MObserveStore \/ MObserveLock \/ MObserveRing
    \/ MRefreshLag \/ MRefreshLock \/ MRefreshRing
    \/ MSnapshotRecords \/ MSnapshotLast \/ MSnapshotLock \/ MSnapshotRing

MetricsSpec == MetricsInit /\ [][MetricsNext]_vars

\* C11: with metrics enabled, whenever no observeIngest call is in progress
\* ingestedRecords equals the number of completed observeIngest calls, which is
\* the number of events added to the sketch, whatever snapshot and refresh
\* observations ran in between; and no step ever decreases ingestedRecords.
C11_IngestedRecordsCountsCalls ==
    /\ [](metrics.enabled /\ rd.pc = "next"
            => metrics.ingestedRecords = rd.n /\ Count(sketch, "a") = rd.n)
    /\ [][metrics'.ingestedRecords >= metrics.ingestedRecords]_vars

\* two calls have completed and a snapshot taken during the run has been returned
C11_Witness ==
    /\ metrics.enabled /\ rd.pc = "next" /\ rd.n >= 2
    /\ ui.pc = "idle" /\ ui.snap.records = 1 /\ ui.snap.ingestSamples = 2

\* ------------------------------------------------- malformed input, replay
\* a line that lacks a delimiter, a line whose timestamp does not parse, a
\* record that does not decode
Malformed(rec) == ~rec.ok \/ (cfg.mode = "accesslog" /\ rec.ts = <<"str", 0>>)

\* C12: once the reader has looked at a malformed line or record, it is not
\* adding it to the sketch and has no error when replay is off, and it has
\* stopped with an error when replay is on.
C12_MalformedSkippedOrFatal ==
    Malformed(rd.cur) /\ rd.pc # "parked" =>
        IF cfg.replay THEN rd.err /\ rd.pc = "done"
        ELSE ~rd.err /\ rd.pc \notin {"add_lock", "add"}

\* the reader takes the next record and looks at its timestamp
Parses == rd.pc = "next" /\ input' # input /\ rd'.pc # "parked"

Float(v) == [nan |-> FALSE, v |-> v]
NaN == [nan |-> TRUE, v |-> 0]

\* the comparisons of IEEE 754: every comparison with NaN is false
FloatLess(x, y) == ~x.nan /\ ~y.nan /\ x.v < y.v
FloatLessEq(x, y) == ~x.nan /\ ~y.nan /\ x.v <= y.v

\* var config: the defaults, durations in seconds
DefaultConfig ==
    [K |-> 50, Width |-> 3000, Depth |-> 3, Decay |-> Float(90), DecayLUTSize |-> 8192,
     TickSize |-> 1, WindowSize |-> 10, ViewSplit |-> 50, PlotFPS |-> 20, ItemsFPS |-> 1,
     ItemCountsFPS |-> 5, MaxLines |-> 0, Pace |-> 0, Replay |-> FALSE,
     ReplaySpeed |-> Float(100), ReplayMaxSleep |-> 0, AccessLog |-> FALSE, JSON |-> FALSE,
     FullRefresh |-> 2, PartialSize |-> 0, StatsEnabled |-> TRUE, StatsWindow |-> 256]

\* the settings one flag of the command line can make
FlagSettings ==
    ({"K", "Width", "Depth", "DecayLUTSize", "PlotFPS", "ItemsFPS", "ItemCountsFPS",
      "MaxLines", "PartialSize", "Pace", "ReplayMaxSleep", "FullRefresh"} \X {-1, 0, 1})
    \cup ({"WindowSize"} \X {-6, 0, 2, 6, 10})
    \cup ({"TickSize"} \X {-3, 0, 3, 4})
    \cup ({"Decay"} \X {Float(-1), Float(0), Float(100), Float(101), NaN})
    \cup ({"ReplaySpeed"} \X {Float(-100), Float(0), Float(50), NaN})
    \cup ({"Replay", "AccessLog", "JSON"} \X {TRUE})
    \cup ({"StatsWindow", "ViewSplit"} \X {1, 90})

\* flag.Parse(): the command lines of up to three flags
CommandLines ==
    {[[[DefaultConfig EXCEPT ![a[1]] = a[2]] EXCEPT ![b[1]] = b[2]] EXCEPT ![c[1]] = c[2]] :
        a \in FlagSettings, b \in FlagSettings,
        c \in ({"Replay", "AccessLog", "JSON"} \X {TRUE})}
    \cup
    {[[DefaultConfig EXCEPT ![a[1]] = a[2]] EXCEPT ![b[1]] = b[2]] :
        a \in FlagSettings, b \in FlagSettings}

\* config.Decay < 0 || config.Decay > 1
DecayRejected(d) == FloatLess(d, Float(0)) \/ FloatLess(Float(100), d)

\* config.WindowSize%config.TickSize != 0
NotMultiple(window, tick) == window % tick # 0

\* validateAndNormalizeConfig: the error, or "nil"
ValidateAndNormalizeConfig(c) ==
    IF c.K < 1 THEN "-k must be >= 1"
    ELSE IF c.Width < 1 THEN "-width must be >= 1"
    ELSE IF c.Depth < 1 THEN "-depth must be >= 1"
    ELSE IF DecayRejected(c.Decay) THEN "-decay must be in [0,1]"
    ELSE IF c.DecayLUTSize < 1 THEN "-decay-lut-size must be >= 1"
    ELSE IF c.TickSize <= 0 THEN "-tick must be > 0"
    ELSE IF c.WindowSize <= 0 THEN "-window must be > 0"
    ELSE IF c.WindowSize < c.TickSize THEN "-window must be >= -tick"
    ELSE IF NotMultiple(c.WindowSize, c.TickSize) THEN "-window must be a multiple of -tick"
    ELSE IF c.PlotFPS < 1 THEN "-plot-fps must be >= 1"
    ELSE IF c.ItemsFPS < 1 THEN "-items-fps must be >= 1"
    ELSE IF c.ItemCountsFPS < 0 THEN "-item-counts-fps must be >= 0"
    ELSE IF c.MaxLines < 0 THEN "-max-lines must be >= 0"
    ELSE IF c.Pace < 0 THEN "-pace must be >= 0"
    ELSE IF FloatLessEq(c.ReplaySpeed, Float(0)) THEN "-replay-speed must be > 0"
    ELSE IF c.ReplayMaxSleep < 0 THEN "-replay-max-sleep must be >= 0"
    ELSE IF c.Replay /\ ~(c.AccessLog \/ c.JSON) THEN "-replay requires -access-log or -json"
    ELSE IF c.AccessLog /\ c.JSON THEN "choose only one: -access-log or -json"
    ELSE IF c.FullRefresh < 0 THEN "-full-refresh must be >= 0"
    ELSE IF c.PartialSize < 0 THEN "-partial-size must be >= 0"
    ELSE "nil"

\* main after validation: ReplaySpeed, ViewSplit and StatsWindow are put in range
Normalized(c) ==
    [c EXCEPT !.ReplaySpeed = IF FloatLessEq(@, Float(0)) THEN Float(100) ELSE @,
              !.ViewSplit = IF @ < 20 THEN 20 ELSE IF @ > 80 THEN 80 ELSE @,
              !.StatsWindow = IF @ < MinStatsWindow THEN MinStatsWindow ELSE @]

ConfigOthers ==
    <<clock, input, sketchMu, timestampsFromData, paused, waiters, rd, tk, ranker,
      listItems, latestTick, obs, mem>>

ConfigInit ==
    /\ cfg \in CommandLines
    /\ clock = ClockStart
    /\ input = <<>>
    /\ sketch = NewSketch(1)
    /\ sketchMu = "none"
    /\ timestampsFromData = FALSE
    /\ paused = FALSE
    /\ waiters = {}
    /\ rd = InitReader
    /\ tk = InitTicker
    /\ ui = [pc |-> "flags", err |-> "nil"]
    /\ ranker = NewIncrementalRanker
    /\ listItems = <<>>
    /\ latestTick = 0
    /\ obs = InitObs
    /\ metrics = NewLatencyMetrics(MinStatsWindow)
    /\ mem = InitMem

\* main: validateAndNormalizeConfig, log.Fatal on an error; otherwise the
\* normalisation, sliding.New(k, window/tick) and newModel
MainStart ==
    /\ ui.pc = "flags"
    /\ LET err == ValidateAndNormalizeConfig(cfg) IN
       IF err # "nil"
       THEN /\ ui' = [pc |-> "fatal", err |-> err]
            /\ UNCHANGED <<cfg, sketch, metrics>>
       ELSE /\ ui' = [pc |-> "idle", err |-> "nil"]
            /\ cfg' = Normalized(cfg)
            /\ sketch' = NewSketch(cfg.WindowSize \div cfg.TickSize)
            /\ metrics' = SetEnabled(NewLatencyMetrics(Normalized(cfg).StatsWindow),
                                     cfg.StatsEnabled)
    /\ UNCHANGED ConfigOthers

ConfigNext == MainStart

ConfigSpec == ConfigInit /\ [][ConfigNext]_vars

HistoryLen == HistLen(sketch.buckets[<<0, 0>>])

\* decay is a number between 0 and 1
DecayInUnitInterval(d) == ~d.nan /\ 0 <= d.v /\ d.v <= 100

\* C14: a configuration that passed validation has a window that is a
\* positive multiple of the tick, k, width, depth and decayLUTSize >= 1, a
\* decay in [0,1], no negative pace, maxLines, fullRefresh, partialSize or
\* replayMaxSleep, a replaySpeed that is not <= 0, replay only with one of the
\* two timestamped modes, not both modes; and the sketch it builds has
\* historyLen = window/tick >= 1.
C14_InvalidConfigRejected ==
    ui.pc = "idle" =>
        /\ cfg.TickSize > 0 /\ cfg.WindowSize > 0 /\ cfg.WindowSize % cfg.TickSize = 0
        /\ cfg.K >= 1 /\ cfg.Width >= 1 /\ cfg.Depth >= 1 /\ cfg.DecayLUTSize >= 1
        /\ DecayInUnitInterval(cfg.Decay)
        /\ cfg.Pace >= 0 /\ cfg.MaxLines >= 0 /\ cfg.FullRefresh >= 0
        /\ cfg.PartialSize >= 0 /\ cfg.ReplayMaxSleep >= 0
        /\ ~FloatLessEq(cfg.ReplaySpeed, Float(0))
        /\ (cfg.Replay => cfg.AccessLog \/ cfg.JSON)
        /\ ~(cfg.AccessLog /\ cfg.JSON)
        /\ HistoryLen >= 1 /\ HistoryLen * cfg.TickSize = cfg.WindowSize

\* -------------------------------------------------------------- plot series
\* the smallest of the counts
RowsMin(S) == CHOOSE x \in S : \A y \in S : x <= y

\* maxCount = max(maxCount, c) over the matching rows
RowsMax(S) == CHOOSE x \in S : \A y \in S : x >= y

\* the rows whose bucket still carries the item's fingerprint
MatchingRows(s, item) ==
    {r \in Rows : LET b == s.buckets[<<r, BucketIndex(item.item, r)>>]
                  IN  b.fp = item.fp /\ HistLen(b) > 0}

\* b.Counts[(int(b.First)+j)%len(b.Counts)]
RingAt(b, j) == b.counts[((b.first + j) % HistLen(b)) + 1]

\* math.Log(max(1, value)): the logarithm is kept as a term
LogValue(c) == <<"ln", Max2(1, c)>>

\* the 1-based place of series[len(series)-1-j]
SeriesPlace(len, j) == len - j

\* fillSeriesFromSketch: the series of len entries for one item of the list
FillSeriesFromSketch(s, item, len, logScale) ==
    LET rows == MatchingRows(s, item) IN
    [p \in 1 .. len |->
        IF rows = {} THEN 0
        ELSE LET j == CHOOSE i \in 0 .. (len - 1) : SeriesPlace(len, i) = p
                 maxCount == RowsMax({0} \cup
                     {RingAt(s.buckets[<<r, BucketIndex(item.item, r)>>], j) : r \in rows})
             IN  IF logScale THEN LogValue(maxCount) ELSE maxCount]

\* updatePlot is about to fill the series of the items of the list
Plotting == ui.pc = "plot"

\* the series updatePlot computes for the i-th item of the list
SeriesOf(i) == FillSeriesFromSketch(sketch, listItems[i], cfg.historyLen, FALSE)

ItemBucket(item, r) == sketch.buckets[<<r, BucketIndex(item.item, r)>>]

\* the matching rows with the lowest count of the item
LowestRows(item) ==
    {r \in MatchingRows(sketch, item) :
        \A q \in MatchingRows(sketch, item) :
            Aggregate(ItemBucket(item, r)) <= Aggregate(ItemBucket(item, q))}

\* the counts of the current tick in the matching rows
CurrentCounts(item) ==
    {ItemBucket(item, r).counts[CurSlot(ItemBucket(item, r))] :
        r \in MatchingRows(sketch, item)}

IsLargest(v, S) == v \in S /\ \A c \in S : c <= v

C16_SeriesOldestToNewest ==
    Plotting =>
        \A i \in 1 .. Len(listItems) : \A p \in 1 .. cfg.historyLen :
            IsLargest(SeriesOf(i)[p],
                      {0} \cup {RingAt(ItemBucket(listItems[i], r), p - 1) :
                                    r \in MatchingRows(sketch, listItems[i])})

\* --------------------------------------------------- the ranker on its own
\* Refresh called with every kind of argument on a ranker made from every kind
\* of parameter, over a sketch that is added to and ticked between the calls.
\* The slices are kept with their backing arrays.

\* NewIncrementalRanker: k, fullRefresh and partialSize are put in range
RankerK(k) == IF k < 1 THEN 1 ELSE k
RankerFullRefresh(f) == IF f < 0 THEN 2 * TickSize ELSE f
RankerPartialSize(p) == IF p < 0 THEN 0 ELSE p

\* the parameters and arguments tried
RankKs == {0, 2}
RankItems == {"a", "b"}
RankFullRefreshes == {-1, 0}
RankPartialSizes == {-1, 1, 2}
BudgetHints == {0, 2}
MaxHeld == 2         \* slices of earlier calls a caller keeps
MaxLoad == 2         \* largest count a bucket of the ranker's sketch holds
MaxRankTicks == 2    \* ticks that pass while the ranker is called

RankOthers ==
    <<cfg, input, sketchMu, timestampsFromData, paused, waiters, rd, tk,
      latestTick, obs, metrics>>

\* the last call of Refresh: the budget it was given when it used one, what it
\* returned and called, the positions it handed to updateCountsFn; flip
\* changes with every call. run holds, for the latest partial refreshes in a
\* row that took limit of the same number of items and cut none, the items
\* each of them handed to updateCountsFn
RankUI ==
    [pc |-> "idle", flip |-> FALSE, budget |-> 0, didFull |-> FALSE, calls |-> <<>>,
     refreshed |-> {}, limit |-> 0, run |-> <<>>, segs |-> <<>>, stale |-> FALSE]

\* ceil(n / limit): the partial refreshes one turn of the window takes
Rounds(n, limit) == (n + limit - 1) \div limit

\* the run of partial refreshes after one more of them
NextRun(run, same, cut, rounds, refreshedItems) ==
    IF cut THEN <<>>
    ELSE LET r == Append(IF same THEN run ELSE <<>>, refreshedItems)
         IN  IF Len(r) > rounds THEN Tail(r) ELSE r

\* no item has a count in the sketch
EmptySketch(s) == \A x \in Items : Count(s, x) = 0

\* the rankers tried: every combination of the parameters over two items, and
\* rankers of three over three items whose partial refresh takes two or one
RankConfigs ==
    {Config("ranker", RankerK(k), 2, RankerFullRefresh(f), RankerPartialSize(p),
            "text", FALSE, 0, 0, FALSE) :
        k \in RankKs, f \in RankFullRefreshes, p \in RankPartialSizes}
    \cup
    {Config("rotation", RankerK(3), 2, RankerFullRefresh(-1), RankerPartialSize(p),
            "text", FALSE, 0, 0, FALSE) : p \in {1, 2}}

\* the items that reach the sketch of the ranker
RankedItems == IF cfg.name = "rotation" THEN Items ELSE RankItems

RankInit ==
    \E c \in RankConfigs :
        /\ cfg = c
        /\ clock = ClockStart
        /\ input = <<>>
        /\ sketch = NewSketch(2)
        /\ sketchMu = "none"
        /\ timestampsFromData = FALSE
        /\ paused = FALSE
        /\ waiters = {}
        /\ rd = InitReader
        /\ tk = InitTicker
        /\ ui = RankUI
        /\ ranker = NewIncrementalRanker
        /\ listItems = <<>>
        /\ latestTick = 0
        /\ obs = InitObs
        /\ metrics = NewLatencyMetrics(MinStatsWindow)
        /\ mem = InitMem

\* the slice sortedFn returned is a temporary of its caller: it is gone by
\* the time the sketch is changed again
DropDiscovered(m) == Collect([m EXCEPT !.disc = NilSlice])

\* an event is added to the sketch
RIncr ==
    /\ \A rc \in DOMAIN sketch.buckets : Aggregate(sketch.buckets[rc]) < MaxLoad
    /\ \E item \in RankedItems :
          sketch' \in SketchAdd(sketch, Cardinality(RankedItems), item, 1)
    /\ mem' = DropDiscovered(mem)
    /\ UNCHANGED <<clock, ui, ranker, listItems>>
    /\ UNCHANGED RankOthers

\* a tick passes
RTick ==
    /\ clock + TickSize <= ClockStart + MaxRankTicks * TickSize
    /\ clock' = clock + TickSize
    /\ sketch' = SketchTicks(sketch, 1)
    /\ mem' = DropDiscovered(mem)
    /\ UNCHANGED <<ui, ranker, listItems>>
    /\ UNCHANGED RankOthers

\* a slice is remembered with what it showed when Refresh returned it
Hold(held, sl, arr) ==
    LET h == IF sl.a = 0 THEN held
             ELSE Append(held, [a |-> sl.a, n |-> sl.n, was |-> Deref(arr, sl)])
    IN  IF Len(h) > MaxHeld THEN Tail(h) ELSE h

\* the positions of the items a list of segments covers
SegmentPositions(segs) ==
    {i \in 1 .. 8 : \E s \in 1 .. Len(segs) : i >= segs[s][1] /\ i < segs[s][1] + segs[s][2]}

RECURSIVE UpdateSegments(_, _, _)
UpdateSegments(items, segs, s) ==
    IF segs = <<>> THEN items
    ELSE UpdateSegments(UpdateCounts(items, Head(segs), s), Tail(segs), s)

\* Refresh, full-refresh branch, on the slices
RefreshFull(now) ==
    \E d \in {SortedSlice(sketch)} :
    \E sorted \in {Alloc(mem.arr, d)} :
    \E own \in {CloneItems(sorted.arr, [sorted.out EXCEPT !.n = Len(Truncate(d, cfg.k))])} :
    \E ret \in {IF own.out.n = 0 THEN [arr |-> own.arr, out |-> NilSlice]
                ELSE CloneItems(own.arr, own.out)} :
        /\ mem' = Collect([arr |-> ret.arr, rk |-> own.out, disc |-> sorted.out,
                           held |-> Hold(mem.held, ret.out, ret.arr)])
        /\ ranker' = [FullRefresh(ranker, d, cfg.k, now)
                         EXCEPT !.items = Deref(ret.arr, own.out)]
        /\ listItems' = Deref(ret.arr, ret.out)
        /\ ui' = [RankUI EXCEPT !.flip = ~ui.flip, !.didFull = TRUE,
                                !.calls = <<"sortedFn">>]

\* Refresh, partial branch, on the slices: the counts are written and the
\* items sorted in the ranker's own array, the slice is cut, a clone returned
RefreshPartial(budget) ==
    \E n \in {Len(ranker.items)} :
    \E limit \in {PartialLimit(n, cfg.partialSize, budget, cfg.k)} :
    \E segs \in {PartialSegments(n, ranker.partialCursor, limit)} :
    \E items \in {UpdateSegments(ranker.items, segs, sketch)} :
    \E fin \in {PartialFinish(ranker, items, limit)} :
    \E own \in {[mem.rk EXCEPT !.n = Len(fin.items)]} :
    \E ret \in {CloneItems(WriteSlice(mem.arr, mem.rk, StableSort(items)), own)} :
        /\ mem' = Collect([arr |-> ret.arr, rk |-> own, disc |-> mem.disc,
                           held |-> Hold(mem.held, ret.out, ret.arr)])
        /\ ranker' = [fin EXCEPT !.items = Deref(ret.arr, own)]
        /\ listItems' = Deref(ret.arr, ret.out)
        /\ ui' = [RankUI EXCEPT !.flip = ~ui.flip, !.budget = budget,
                                !.calls = [i \in 1 .. Len(segs) |-> "updateCountsFn"],
                                !.refreshed = SegmentPositions(segs),
                                !.segs = segs,
                                !.stale = ranker.partialCursor >= n,
                                !.limit = limit,
                                !.run = NextRun(ui.run, ui.limit = limit,
                                                Len(fin.items) # n, Rounds(n, limit),
                                                {ranker.items[i].item :
                                                    i \in SegmentPositions(segs)})]

\* one call of Refresh(now, budgetItems, sortedFn, updateCountsFn)
RRefresh ==
    /\ IF NeedFull(ranker, clock, cfg.fullRefresh)
       THEN RefreshFull(clock)
       ELSE \E budget \in BudgetHints : RefreshPartial(budget)
    /\ UNCHANGED <<clock, sketch>>
    /\ UNCHANGED RankOthers

\* the owner of the slice that sortedFn returned changes one of its elements
RMutate ==
    /\ mem.disc.a # 0
    /\ \E i \in 1 .. Len(mem.arr[mem.disc.a]) :
          /\ mem.arr[mem.disc.a][i].count > 0
          /\ mem' = [mem EXCEPT !.arr[mem.disc.a][i].count = 0]
    /\ ranker' = [ranker EXCEPT !.items = Deref(mem'.arr, mem'.rk)]
    /\ UNCHANGED <<clock, sketch, ui, listItems>>
    /\ UNCHANGED RankOthers

RankNext == RIncr \/ RTick \/ RRefresh \/ RMutate

RankSpec == RankInit /\ [][RankNext]_vars

\* a step that is one call of Refresh
RefreshCalled == ui'.flip # ui.flip

\* the four cases in which a full refresh is due, on the state before the call
FullDue ==
    \/ Len(ranker.items) = 0
    \/ ranker.lastFullRefresh = 0
    \/ cfg.fullRefresh = 0
    \/ clock - ranker.lastFullRefresh >= cfg.fullRefresh

\* what the call did: sortedFn called once and nothing else, didFull returned
DidFullRefresh == ui'.didFull /\ ui'.calls = <<"sortedFn">>

\* what the call did: sortedFn not called, didFull = false returned
DidNoFullRefresh == ~ui'.didFull /\ \A i \in DOMAIN ui'.calls : ui'.calls[i] # "sortedFn"

FullIffDue == RefreshCalled => IF FullDue THEN DidFullRefresh ELSE DidNoFullRefresh

\* C17 as stated: Refresh does a full refresh (sortedFn called, didFull = true)
\* if and only if items is empty, lastFullRefresh is unset, the interval is 0
\* or the interval has passed, and on an empty sketch every call returns the
\* empty list with didFull = true.
C17_FullIffDueAndEmptySketchFull ==
    [][/\ FullIffDue
       /\ RefreshCalled /\ EmptySketch(sketch) => ui'.didFull /\ listItems' = <<>>]_vars

\* C17, amended: Refresh does a full refresh exactly in the four cases; a full
\* refresh on an empty sketch returns the empty list, and a ranker without
\* items always does one.
C17_FullIffDue ==
    [][/\ FullIffDue
       /\ RefreshCalled /\ EmptySketch(sketch) /\ ui'.didFull => listItems' = <<>>
       /\ RefreshCalled /\ EmptySketch(sketch) /\ ranker.items = <<>>
             => ui'.didFull /\ listItems' = <<>>]_vars

\* a Refresh found items left from before the sketch ran empty, did a partial
\* refresh and returned didFull = false
C17_Witness ==
    /\ ui.calls # <<>>
    /\ ~ui.didFull
    /\ EmptySketch(sketch)
    /\ ranker.lastFullRefresh # 0
    /\ clock - ranker.lastFullRefresh < cfg.fullRefresh


\* C18: with fullRefreshInterval = 0 every call of Refresh returns didFull =
\* true, calls sortedFn and never updateCountsFn, and partialCursor is 0 after
\* every call.
C18_ZeroIntervalAlwaysFull ==
    /\ [][RefreshCalled /\ cfg.fullRefresh = 0
             => DidFullRefresh /\ ranker'.partialCursor = 0]_vars
    /\ [](cfg.fullRefresh = 0 => ranker.partialCursor = 0)

\* with interval 0, a second call found two items and a set lastFullRefresh
\* and did a full refresh again
C18_Witness ==
    /\ cfg.fullRefresh = 0
    /\ ui.calls = <<"sortedFn">>
    /\ ~ui.flip
    /\ Len(ranker.items) = 2
    /\ Len(mem.held) = 2


\* a step in which only the owner of sortedFn's slice writes to it
MutateStep == mem'.arr # mem.arr /\ ui' = ui /\ sketch' = sketch /\ clock' = clock

\* C19: a slice returned by Refresh shares no state with the ranker: every
\* slice returned earlier still shows the elements, order and length it was
\* returned with after later partial and full refreshes, and a change made to
\* the slice sortedFn returned leaves the ranker's items as they were.
C19_ReturnedSliceIndependent ==
    /\ [](\A i \in DOMAIN mem.held : Deref(mem.arr, mem.held[i]) = mem.held[i].was)
    /\ [][MutateStep => ranker'.items = ranker.items /\ Deref(mem'.arr, mem'.rk) = ranker.items]_vars

\* the slice of the call before the last is still held, and the last call was
\* a partial refresh that left the ranker with other items than that slice shows
C19_Witness ==
    /\ Len(mem.held) = 2
    /\ ui.calls # <<>>
    /\ ~ui.didFull
    /\ mem.held[1].was # ranker.items
    /\ Deref(mem.arr, mem.held[1]) = mem.held[1].was
    /\ Deref(mem.arr, mem.rk) = ranker.items


\* a step that is a call of Refresh taking the partial branch
PartialCalled == RefreshCalled /\ ~ui'.didFull

\* the limit of the call by the rule: partialSize if positive, else the budget
\* hint if positive, else the auto budget, and never more than the items
RuleLimit ==
    LET n == Len(ranker.items)
        want == IF cfg.partialSize > 0 THEN cfg.partialSize
                ELSE IF ui'.budget > 0 THEN ui'.budget
                ELSE AutoBudget(cfg.k)
    IN  IF want < n THEN want ELSE n

\* the items after the call carry a fresh count at the refreshed positions and
\* the old one elsewhere, those without a count being cut
CountsRefreshedAt(P) ==
    LET after(i) == [ranker.items[i] EXCEPT
                        !.count = IF i \in P THEN Count(sketch, ranker.items[i].item) ELSE @]
    IN  {ranker'.items[j] : j \in DOMAIN ranker'.items}
          = {after(i) : i \in {p \in DOMAIN ranker.items : after(p).count > 0}}

\* C20: a partial refresh refreshes the counts of limit items, limit being
\* min(partialSize, |items|) when partialSize > 0 whatever the budget hint, and
\* min(budget hint if positive else auto budget, |items|) otherwise; with
\* partialSize >= |items| every item is refreshed in the one call.
C20_PartialRefreshesLimitItems ==
    [][PartialCalled =>
          /\ ui'.refreshed \subseteq DOMAIN ranker.items
          /\ Cardinality(ui'.refreshed) = RuleLimit
          /\ CountsRefreshedAt(ui'.refreshed)
          /\ (cfg.partialSize >= Len(ranker.items) => ui'.refreshed = DOMAIN ranker.items)]_vars

\* a partial refresh with partialSize 1 and budget hint 2 on two items
\* refreshed one of them
C20_Witness ==
    /\ ~ui.didFull
    /\ ui.calls = <<"updateCountsFn">>
    /\ cfg.partialSize = 1
    /\ ui.budget = 2
    /\ Cardinality(ui.refreshed) = 1
    /\ Len(ranker.items) = 2


WindowCalled == PartialCalled /\ RuleLimit < Len(ranker.items)

\* the positions cursor, cursor + 1, ..., cursor + limit - 1 modulo |items|,
\* counted from 1
WindowPositions ==
    {((ranker.partialCursor + j) % Len(ranker.items)) + 1 : j \in 0 .. (RuleLimit - 1)}

\* the window goes past the end of the items
WindowWraps == (ranker.partialCursor % Len(ranker.items)) + RuleLimit > Len(ranker.items)

\* C22: a partial refresh with limit < |items| hands updateCountsFn exactly
\* the positions cursor .. cursor + limit - 1 (mod |items|) of the items
\* before the sort, in one segment or in two when the window wraps, leaves the
\* count of every other item as it was, and sets partialCursor to
\* (cursor + limit) mod |items|.
C22_WindowIsCursorToLimit ==
    [][WindowCalled =>
          /\ ui'.refreshed = WindowPositions
          /\ Len(ui'.calls) = (IF WindowWraps THEN 2 ELSE 1)
          /\ CountsRefreshedAt(WindowPositions)
          /\ ranker'.partialCursor
                = (ranker.partialCursor + RuleLimit) % Len(ranker.items)]_vars

\* a window of two on three items started at the last one and went round
C22_Witness ==
    /\ ui.calls = <<"updateCountsFn", "updateCountsFn">>
    /\ ui.refreshed = {1, 3}
    /\ ranker.partialCursor = 1
    /\ Len(ranker.items) = 3


\* one turn of the window is over: as many partial refreshes in a row as the
\* window needs to go round, none of which changed the number of items
TurnDone ==
    /\ ui.run # <<>>
    /\ Len(ui.run) = Rounds(Len(ranker.items), ui.limit)

\* C23: in any run of ceil(|items| / limit) consecutive partial refreshes
\* during which |items| does not change, every item of the ranker's list has
\* its count refreshed at least once, also when the sort after a partial
\* refresh reorders the items.
C23_TurnRefreshesEveryItem ==
    TurnDone =>
        \A i \in DOMAIN ranker.items :
            \E j \in DOMAIN ui.run : ranker.items[i].item \in ui.run[j]


\* ------------------------------------------- one driver of the sketch clock
\* doSketchTicks called again and again by one driver: the wall ticker with
\* the times of its ticks, or the reader on the data clock with the event
\* times of its records, in the order they come.

\* doSketchTicks(t, last): the new last and the argument of Ticks, 0 when
\* Ticks is not called
DoSketchTicks(t, last) ==
    LET tt == Truncated(t) IN
    IF last = 0 THEN [last |-> tt, ticks |-> 0]
    ELSE IF TicksBetween(tt, last) > 0
    THEN [last |-> tt, ticks |-> TicksBetween(tt, last)]
    ELSE [last |-> last, ticks |-> 0]

DriverOthers ==
    <<cfg, clock, input, sketchMu, timestampsFromData, paused, waiters, rd, ui,
      ranker, listItems, obs, metrics, mem>>

\* the driver: its last, the time of its latest call, and of its calls: how
\* many there were (2 for more), the truncated time of the first, the sum of
\* the arguments of Ticks, the argument of the latest call ("none" when the
\* call left Ticks alone)
InitDriver(kind) ==
    [pc |-> kind, last |-> 0, t |-> 0, calls |-> 0, first |-> 0, sum |-> 0,
     arg |-> <<"none">>]

DriverInit ==
    \E kind \in {"ticker", "reader"} :
        /\ cfg = Config(kind, 1, 2, 0, 0, IF kind = "reader" THEN "json" ELSE "text",
                        FALSE, 0, 0, FALSE)
        /\ clock = ClockStart
        /\ input = <<>>
        /\ sketch = NewSketch(2)
        /\ sketchMu = "none"
        /\ timestampsFromData = (kind = "reader")
        /\ paused = FALSE
        /\ waiters = {}
        /\ rd = InitReader
        /\ tk = InitDriver(kind)
        /\ ui = InitUI
        /\ ranker = NewIncrementalRanker
        /\ listItems = <<>>
        /\ latestTick = 0
        /\ obs = InitObs
        /\ metrics = NewLatencyMetrics(MinStatsWindow)
        /\ mem = InitMem

\* one call last = m.doSketchTicks(t, last) of the driver
DriverCall(t) ==
    \E r \in {DoSketchTicks(t, tk.last)} :
        /\ tk' = [tk EXCEPT !.last = r.last,
                            !.t = t,
                            !.calls = IF @ < 2 THEN @ + 1 ELSE @,
                            !.first = IF tk.calls = 0 THEN Truncated(t) ELSE @,
                            !.sum = @ + r.ticks,
                            !.arg = IF TicksBetween(Truncated(t), tk.last) > 0 /\ tk.last # 0
                                    THEN <<"ticks", r.ticks>> ELSE <<"none">>]
        /\ sketch' = IF r.ticks > 0 THEN SketchTicks(sketch, r.ticks) ELSE sketch

\* sketchTickCmd: a tick of the wall ticker, later than the one before
DriverTick ==
    /\ tk.pc = "ticker"
    /\ \E t \in ClockStart .. MaxDriverTime :
          /\ t > tk.t
          /\ DriverCall(t)
          /\ latestTick' = Truncated(t)
    /\ UNCHANGED DriverOthers

\* readJSONItems / readAccessLogItems: a record whose event time is not the
\* zero time
DriverEvent ==
    /\ tk.pc = "reader"
    /\ \E t \in 1 .. MaxDriverTime :
          /\ DriverCall(t)
          /\ latestTick' = tk'.last
    /\ UNCHANGED DriverOthers

DriverNext == DriverTick \/ DriverEvent

DriverSpec == DriverInit /\ [][DriverNext]_vars

\* C24: for one driver, after any sequence of doSketchTicks calls the sum of
\* the n passed to Ticks is (last - t0) / tick, t0 being the truncated time of
\* the first call; the first call applies no Ticks, Ticks is never called with
\* n <= 0, and last is a multiple of tick.
C24_TicksSumIsElapsed ==
    /\ tk.calls > 0 => tk.sum * TickSize = tk.last - tk.first
    /\ tk.calls = 1 => tk.arg = <<"none">>
    /\ tk.arg # <<"none">> => tk.arg[2] > 0
    /\ tk.last % TickSize = 0


\* ------------------------------------------------ snapshots of the metrics
\* C30: every value returned by latencyMetrics.snapshot has ingestSamples <=
\* min(records, ring capacity), also when observeIngest runs concurrently
\* with the snapshot call.
C30_SamplesAtMostRecords ==
    ui.pc = "idle" =>
        /\ ui.snap.ingestSamples <= ui.snap.records
        /\ ui.snap.ingestSamples <= Len(metrics.ingestRecent.buf)


\* ------------------------------------------- the sample rings, call by call
\* how often the ring index goes round in a run
MaxLaps == 2

\* the shapes of the sample sequences: the i-th value of each
SamplePatterns == {"up", "down", "saw", "flat", "slow"}

SampleAt(p, i) ==
    CASE p = "up" -> i
      [] p = "down" -> (MaxLaps + 1) * (MinStatsWindow + 1) - i
      [] p = "saw" -> ((7 * i) % 5) + 1
      [] p = "flat" -> 1
      [] OTHER -> 3 * i

RingOthers ==
    <<cfg, input, sketch, sketchMu, timestampsFromData, paused, waiters, rd, tk,
      ranker, listItems, latestTick, obs, mem>>

RingUI(p) ==
    [pc |-> "idle", pat |-> p, lags |-> <<>>, times |-> <<>>, snap |-> EmptySnapshot]

RingInit ==
    \E p \in SamplePatterns, window \in StatsWindows :
        /\ cfg = [Config("rings", 1, 2, 0, 0, "text", FALSE, 0, 0, FALSE)
                     EXCEPT !.stats = TRUE]
        /\ clock = ClockStart
        /\ input = <<>>
        /\ sketch = NewSketch(2)
        /\ sketchMu = "none"
        /\ timestampsFromData = FALSE
        /\ paused = FALSE
        /\ waiters = {}
        /\ rd = InitReader
        /\ tk = InitTicker
        /\ ui = RingUI(p)
        /\ ranker = NewIncrementalRanker
        /\ listItems = <<>>
        /\ latestTick = 0
        /\ obs = InitObs
        /\ metrics = SetEnabled(NewLatencyMetrics(window), TRUE)
        /\ mem = InitMem

\* the calls of one kind a run makes: the index goes round MaxLaps times
RingCalls(r) == MaxLaps * Len(r.buf) + 1

\* observeIngest(now), from isEnabled to mu.Unlock()
ObserveIngest(m, now) ==
    IF ~m.enabled THEN m
    ELSE [m EXCEPT !.ingestedRecords = CountAdd(@), !.lastIngestNs = now,
                   !.ingestRecent = RingAdd(@, now)]

\* observeTopKRefresh(now), from isEnabled to mu.Unlock()
ObserveTopKRefresh(m, now) ==
    IF ~m.enabled THEN m
    ELSE [m EXCEPT !.rankLagNs = RingAdd(@, RankLag(m.lastIngestNs, now))]

\* latencyMetrics.snapshot() at time now, with nothing running beside it
Snapshot(m, now) ==
    IF ~m.enabled THEN EmptySnapshot
    ELSE LET ing == RingSnapshot(m.ingestRecent)
             lag == Percentile95Duration(m.rankLagNs)
         IN  [records |-> m.ingestedRecords,
              ingestRps |-> RecentRate(ing.oldest, ing.newest, ing.n),
              ingestSamples |-> ing.n,
              ingestLag |-> IF m.lastIngestNs > 0 /\ now > m.lastIngestNs
                            THEN now - m.lastIngestNs ELSE 0,
              rankLagP95 |-> lag.p95,
              rankLagSamples |-> lag.n]

\* a reader's observeIngest(now) with the next time of the run; the reader's
\* calls of a run come before the view's
RObserveIngest ==
    /\ Len(ui.times) < RingCalls(metrics.ingestRecent)
    /\ ui.lags = <<>>
    /\ LET now == SampleAt(ui.pat, Len(ui.times) + 1)
       IN  /\ clock' = now
           /\ metrics' = ObserveIngest(metrics, now)
           /\ ui' = [ui EXCEPT !.pc = "idle", !.times = Append(@, now),
                               !.snap = EmptySnapshot]
    /\ UNCHANGED RingOthers

\* updateTopKIncremental's observeTopKRefresh(time.Now()), the next lag of
\* the run after the last ingest
RObserveTopKRefresh ==
    /\ Len(ui.lags) < RingCalls(metrics.rankLagNs)
    /\ LET now == metrics.lastIngestNs + SampleAt(ui.pat, Len(ui.lags) + 1)
       IN  /\ clock' = now
           /\ metrics' = ObserveTopKRefresh(metrics, now)
           /\ ui' = [ui EXCEPT !.pc = "idle", !.snap = EmptySnapshot,
                               !.lags = Append(@, RankLag(metrics.lastIngestNs, now))]
    /\ UNCHANGED RingOthers

\* the view's snapshot()
RSnapshot ==
    /\ ui.pc = "idle"
    /\ ui' = [ui EXCEPT !.pc = "shown", !.snap = Snapshot(metrics, clock)]
    /\ UNCHANGED <<clock, metrics>>
    /\ UNCHANGED RingOthers

RingNext == RObserveIngest \/ RObserveTopKRefresh \/ RSnapshot

RingSpec == RingInit /\ [][RingNext]_vars

\* the last n elements of a sequence
LastN(s, n) == SubSeq(s, Len(s) - n + 1, Len(s))

\* v is the element at index pos (from 0) of the ascending sort of s
IsSortedAt(s, pos, v) ==
    /\ \E i \in DOMAIN s : s[i] = v
    /\ Cardinality({i \in DOMAIN s : s[i] < v}) <= pos
    /\ Cardinality({i \in DOMAIN s : s[i] <= v}) > pos

\* C25: the reported rank-lag p95 is the element at index floor(0.95 * (N - 1))
\* of the ascending sort of the N = min(calls, capacity) most recent lag
\* samples, at every fill level and every position of the ring index, and it
\* is 0 with N = 0 when there is no sample.
C25_P95OfMostRecentLags ==
    ui.pc = "shown" =>
        LET N == Min2(Len(ui.lags), Len(metrics.rankLagNs.buf))
        IN  /\ ui.snap.rankLagSamples = N
            /\ N = 0 => ui.snap.rankLagP95 = 0
            /\ N > 0 => IsSortedAt(LastN(ui.lags, N), (95 * (N - 1)) \div 100,
                                   ui.snap.rankLagP95)

\* a snapshot of a ring that has gone round, its index in the middle, with
\* samples that are not in order
C25_Witness ==
    /\ ui.pc = "shown"
    /\ ui.pat = "saw"
    /\ Len(ui.lags) > Len(metrics.rankLagNs.buf)
    /\ metrics.rankLagNs.idx = 3
    /\ ui.snap.rankLagP95 > 1

\* r is (n - 1) / ((newest - oldest) in seconds) rounded to the nearest
\* integer, halves upwards; a second is TickSize time units
IsRoundedRate(r, oldest, newest, n) ==
    LET dt == newest - oldest
    IN  /\ (2 * r - 1) * dt <= 2 * TickSize * (n - 1)
        /\ 2 * TickSize * (n - 1) < (2 * r + 1) * dt

\* C26: after a observeIngest calls on a ring of capacity C >= 16 the ring
\* snapshot returns n = min(a, C), the oldest of the n most recent timestamps
\* and the most recent one, and ingestRps is (n - 1) / (newest - oldest in
\* seconds) rounded to the nearest integer, 0 when n <= 1 or newest <= oldest.
C26_IngestRateOfMostRecent ==
    LET a == Len(ui.times)
        n == Min2(a, Len(metrics.ingestRecent.buf))
        s == RingSnapshot(metrics.ingestRecent)
    IN  /\ Len(metrics.ingestRecent.buf) >= MinStatsWindow
        /\ s.n = n
        /\ n > 0 => s.oldest = ui.times[a - n + 1] /\ s.newest = ui.times[a]
        /\ ui.pc = "shown" =>
              /\ ui.snap.ingestSamples = n
              /\ IF n <= 1 \/ ui.times[a] <= ui.times[a - n + 1]
                 THEN ui.snap.ingestRps = 0
                 ELSE IsRoundedRate(ui.snap.ingestRps, ui.times[a - n + 1], ui.times[a], n)

\* a snapshot of a ring that has gone round, its index in the middle, with a
\* rate that is not a whole number before rounding
C26_Witness ==
    /\ ui.pc = "shown"
    /\ ui.pat = "slow"
    /\ Len(ui.times) > Len(metrics.ingestRecent.buf)
    /\ metrics.ingestRecent.idx = 5
    /\ ui.snap.ingestRps = 1
    /\ ui.snap.ingestSamples = MinStatsWindow

\* ------------------------------------------------- the budget of a ranker
\* the largest k a ranker is made with
MaxBudgetK == 203

BudgetOthers ==
    <<clock, input, sketch, sketchMu, timestampsFromData, paused, waiters, rd, tk,
      ranker, listItems, latestTick, obs, metrics, mem>>

BudgetInit ==
    /\ cfg = Config("budget", 1, 2, 0, 0, "text", FALSE, 0, 0, FALSE)
    /\ clock = ClockStart
    /\ input = <<>>
    /\ sketch = NewSketch(2)
    /\ sketchMu = "none"
    /\ timestampsFromData = FALSE
    /\ paused = FALSE
    /\ waiters = {}
    /\ rd = InitReader
    /\ tk = InitTicker
    /\ ui = [pc |-> "new", k |-> 0, autoBudget |-> 0, n |-> 0, budget |-> 0, limit |-> 0]
    /\ ranker = NewIncrementalRanker
    /\ listItems = <<>>
    /\ latestTick = 0
    /\ obs = InitObs
    /\ metrics = NewLatencyMetrics(0)
    /\ mem = InitMem

\* NewIncrementalRanker(k, fullRefresh, partialSize)
BNewIncrementalRanker ==
    /\ ui.pc = "new"
    /\ \E k \in 0 .. MaxBudgetK, p \in {-1, 0, 2} :
        /\ cfg' = [cfg EXCEPT !.k = RankerK(k), !.partialSize = RankerPartialSize(p)]
        /\ ui' = [ui EXCEPT !.pc = "made", !.k = k, !.autoBudget = AutoBudget(RankerK(k))]
    /\ UNCHANGED BudgetOthers

\* Refresh: the limit of a partial refresh over n items with a budget hint
BLimit ==
    /\ ui.pc = "made"
    /\ \E n \in 1 .. cfg.k, budgetItems \in {0, 3} :
        ui' = [ui EXCEPT !.pc = "limited", !.n = n, !.budget = budgetItems,
                         !.limit = PartialLimit(n, cfg.partialSize, budgetItems, cfg.k)]
    /\ UNCHANGED cfg
    /\ UNCHANGED BudgetOthers

BudgetNext == BNewIncrementalRanker \/ BLimit

BudgetSpec == BudgetInit /\ [][BudgetNext]_vars

\* the auto budget of the rule
RuleAutoBudget(k) ==
    Min2(k, Min2(100, Max2(k \div 2, IF k >= 10 THEN 10 ELSE 1)))

\* an auto limit was computed for a ranker made with k >= 1
AutoLimited == ui.pc = "limited" /\ ui.k >= 1 /\ cfg.partialSize = 0 /\ ui.budget = 0

BudgetInRule ==
    ui.pc # "new" /\ ui.k >= 1 =>
        /\ ui.autoBudget = RuleAutoBudget(ui.k)
        /\ 1 <= ui.autoBudget
        /\ ui.autoBudget <= Min2(ui.k, 100)

\* C27 as stated: for every k >= 1 autoBudget = min(k, min(100, max(k div 2,
\* 10 if k >= 10 else 1))), 1 <= autoBudget <= min(k, 100), and autoBudget is
\* the limit of a partial refresh when partialSize = 0 and budgetHint = 0.
C27_AutoBudgetIsLimit ==
    /\ BudgetInRule
    /\ AutoLimited => ui.limit = ui.autoBudget

\* C27, amended: the value and the range of autoBudget as stated, and the
\* limit of a partial refresh with partialSize = 0 and budgetHint = 0 is the
\* smaller of autoBudget and the number of items.
C27_AutoBudgetCapsLimit ==
    /\ BudgetInRule
    /\ AutoLimited => ui.limit = Min2(ui.autoBudget, ui.n)

\* a ranker of more than 200 with the budget at its cap, and fewer items
\* than the budget
C27_Witness ==
    /\ AutoLimited
    /\ ui.k > 200
    /\ ui.autoBudget = 100
    /\ ui.n = 99
    /\ ui.limit = 99

\* ------------------------------------------------------------------ pause
\* C28 as stated: after pause is switched on each reader adds at most one
\* more event and the wall ticker applies at most one more Ticks call before
\* blocking, and nothing else changes the sketch until pause is switched off.
C28_OneEventOneTickAfterPause ==
    paused => rd.adds <= 1 /\ tk.aged <= 1 /\ rd.aged = 0

\* C28, amended: after pause is switched on a reader adds at most one more
\* event, with at most one Ticks call of its own before it when it runs the
\* data clock, and the wall ticker applies at most one more Ticks call;
\* nothing else changes the sketch until pause is switched off.
C28_OneRoundAfterPause ==
    paused => rd.adds <= 1 /\ tk.aged <= 1 /\ rd.aged <= 1

\* reader and ticker blocked in a pause after each has finished the round it
\* was in
C28_Witness ==
    /\ paused
    /\ rd.pc = "parked" /\ rd.adds = 1
    /\ tk.pc = "parked" /\ tk.aged = 1

\* ---------------------------------------------------- the four mutexes
\* Each actor is the list of the lock operations of its code, in program
\* order: the reader is a round of readJSONItems, the ticker a round of
\* sketchTickCmd, the UI one handler of Update or View at a time. A branch
\* goes on or jumps to the given position (past the end: the code returns).
Mutexes == {"sketchMu", "mu", "pauseMu", "metricsMu"}

Actors == {"reader", "ticker", "ui"}

Handlers == {"itemCountsTick", "itemsTick", "plotTick", "pauseKey", "trackKey", "view"}

\* waitIfPaused
WaitIfPausedOps == <<<<"lock", "pauseMu">>, <<"check">>, <<"unlock", "pauseMu">>>>

\* isPaused
IsPausedOps == <<<<"lock", "pauseMu">>, <<"unlock", "pauseMu">>>>

Section(m) == <<<<"lock", m>>, <<"unlock", m>>>>

\* sketchTickCmd with doSketchTicks called while m.mu is held
ProgramNested(name) ==
    WaitIfPausedOps \o <<<<"branch", 10>>, <<"lock", "mu">>, <<"branch", 9>>>>
        \o Section("sketchMu") \o <<<<"unlock", "mu">>>>

Program(name) ==
    CASE name = "reader" ->
            WaitIfPausedOps \o <<<<"branch", 10>>>> \o <<<<"branch", 8>>>>
                \o Section("sketchMu") \o Section("mu")
                \o Section("sketchMu") \o Section("metricsMu")
      [] name = "ticker" ->
            WaitIfPausedOps \o <<<<"branch", 10>>>> \o Section("mu")
                \o <<<<"branch", 10>>>> \o Section("sketchMu")
      [] name = "itemCountsTick" ->
            IsPausedOps \o <<<<"branch", 12>>>> \o Section("mu") \o Section("sketchMu")
                \o Section("mu") \o Section("mu")
      [] name = "itemsTick" ->
            IsPausedOps \o <<<<"branch", 15>>>> \o Section("sketchMu")
                \o <<<<"branch", 9>>>> \o Section("sketchMu")
                \o Section("metricsMu") \o Section("mu") \o Section("mu")
      [] name = "plotTick" ->
            Section("mu") \o <<<<"branch", 8>>>> \o Section("sketchMu") \o Section("mu")
      [] name = "pauseKey" ->
            <<<<"lock", "pauseMu">>, <<"toggle">>, <<"unlock", "pauseMu">>, <<"broadcast">>>>
      [] name = "trackKey" -> Section("mu")
      [] OTHER ->
            Section("mu") \o Section("mu") \o <<<<"branch", 12>>>>
                \o Section("metricsMu") \o IsPausedOps \o Section("mu")

Held ==
    [sketchMu |-> sketchMu, mu |-> obs.mu, pauseMu |-> obs.pauseMu, metricsMu |-> metrics.mu]

SetHeld(h) ==
    /\ sketchMu' = h.sketchMu
    /\ obs' = [mu |-> h.mu, pauseMu |-> h.pauseMu]
    /\ metrics' = [metrics EXCEPT !.mu = h.metricsMu]

Actor(a) == IF a = "reader" THEN rd ELSE IF a = "ticker" THEN tk ELSE ui

SetActor(a, s) ==
    \/ a = "reader" /\ rd' = s /\ UNCHANGED <<tk, ui>>
    \/ a = "ticker" /\ tk' = s /\ UNCHANGED <<rd, ui>>
    \/ a = "ui" /\ ui' = s /\ UNCHANGED <<rd, tk>>

InitActor(prog) == [prog |-> prog, pc |-> 1, st |-> "run"]

\* the operation an actor is at
OpOf(s) == IF s.prog = "idle" \/ s.st = "parked" THEN <<"none">> ELSE Program(s.prog)[s.pc]

\* the actor at position pc, or at the end of its round or handler
Goto(s, pc) ==
    IF pc <= Len(Program(s.prog)) THEN [s EXCEPT !.pc = pc]
    ELSE InitActor(IF s.prog \in {"reader", "ticker"} THEN s.prog ELSE "idle")

LockOthers ==
    <<cfg, clock, input, sketch, timestampsFromData, ranker, listItems, latestTick, mem>>

LockInit ==
    /\ cfg = [Config("locks", 1, 2, 0, 0, "json", FALSE, 0, 0, TRUE) EXCEPT !.stats = TRUE]
    /\ clock = ClockStart
    /\ input = <<>>
    /\ sketch = NewSketch(2)
    /\ sketchMu = "none"
    /\ timestampsFromData = FALSE
    /\ paused = FALSE
    /\ waiters = {}
    /\ rd = InitActor("reader")
    /\ tk = InitActor("ticker")
    /\ ui = InitActor("idle")
    /\ ranker = NewIncrementalRanker
    /\ listItems = <<>>
    /\ latestTick = 0
    /\ obs = [mu |-> "none", pauseMu |-> "none"]
    /\ metrics = SetEnabled(NewLatencyMetrics(0), TRUE)
    /\ mem = InitMem

\* the event loop hands the next message to Update, or calls View
LHandle ==
    /\ ui.prog = "idle"
    /\ \E h \in Handlers : ui' = InitActor(h)
    /\ UNCHANGED <<rd, tk, sketchMu, obs, metrics, paused, waiters>>
    /\ UNCHANGED LockOthers

\* Lock() returns
LLock(a) ==
    /\ OpOf(Actor(a))[1] = "lock"
    /\ Held[OpOf(Actor(a))[2]] = "none"
    /\ SetHeld([Held EXCEPT ![OpOf(Actor(a))[2]] = a])
    /\ SetActor(a, Goto(Actor(a), Actor(a).pc + 1))
    /\ UNCHANGED <<paused, waiters>>
    /\ UNCHANGED LockOthers

\* Unlock()
LUnlock(a) ==
    /\ OpOf(Actor(a))[1] = "unlock"
    /\ SetHeld([Held EXCEPT ![OpOf(Actor(a))[2]] = "none"])
    /\ SetActor(a, Goto(Actor(a), Actor(a).pc + 1))
    /\ UNCHANGED <<paused, waiters>>
    /\ UNCHANGED LockOthers

\* waitIfPaused: for m.paused { m.pauseCond.Wait() }, Wait unlocks pauseMu
LCheck(a) ==
    /\ OpOf(Actor(a))[1] = "check"
    /\ IF paused
       THEN /\ SetActor(a, [Actor(a) EXCEPT !.st = "parked"])
            /\ SetHeld([Held EXCEPT !.pauseMu = "none"])
            /\ waiters' = waiters \cup {a}
       ELSE /\ SetActor(a, Goto(Actor(a), Actor(a).pc + 1))
            /\ UNCHANGED <<sketchMu, obs, metrics, waiters>>
    /\ UNCHANGED paused
    /\ UNCHANGED LockOthers

\* Wait, woken by a Broadcast, locks pauseMu again and returns
LRelock(a) ==
    /\ Actor(a).st = "parked"
    /\ a \notin waiters
    /\ Held.pauseMu = "none"
    /\ SetHeld([Held EXCEPT !.pauseMu = a])
    /\ SetActor(a, [Actor(a) EXCEPT !.st = "run"])
    /\ UNCHANGED <<paused, waiters>>
    /\ UNCHANGED LockOthers

\* an if of the code
LBranch(a) ==
    /\ OpOf(Actor(a))[1] = "branch"
    /\ \E pc \in {Actor(a).pc + 1, OpOf(Actor(a))[2]} : SetActor(a, Goto(Actor(a), pc))
    /\ UNCHANGED <<sketchMu, obs, metrics, paused, waiters>>
    /\ UNCHANGED LockOthers

\* togglePause: m.paused = !m.paused
LToggle(a) ==
    /\ OpOf(Actor(a))[1] = "toggle"
    /\ paused' = ~paused
    /\ SetActor(a, Goto(Actor(a), Actor(a).pc + 1))
    /\ UNCHANGED <<sketchMu, obs, metrics, waiters>>
    /\ UNCHANGED LockOthers

\* togglePause: m.pauseCond.Broadcast()
LBroadcast(a) ==
    /\ OpOf(Actor(a))[1] = "broadcast"
    /\ waiters' = Broadcast(waiters)
    /\ SetActor(a, Goto(Actor(a), Actor(a).pc + 1))
    /\ UNCHANGED <<sketchMu, obs, metrics, paused>>
    /\ UNCHANGED LockOthers

LockNext ==
    \/ LHandle
    \/ \E a \in Actors :
         LLock(a) \/ LUnlock(a) \/ LCheck(a) \/ LRelock(a) \/ LBranch(a)
            \/ LToggle(a) \/ LBroadcast(a)

LockSpec == LockInit /\ [][LockNext]_vars

\* the scheduler runs a goroutine that can run, and a sync.Mutex that is
\* unlocked again and again is handed to a goroutine that keeps waiting for it
LockFairSpec ==
    /\ LockSpec
    /\ \A a \in Actors :
         /\ WF_vars(LUnlock(a) \/ LCheck(a) \/ LBranch(a) \/ LToggle(a) \/ LBroadcast(a))
         /\ SF_vars(LLock(a) \/ LRelock(a))

\* a is in Lock() of m, or in the Lock() that ends a Wait
WaitsFor(a, m) ==
    \/ OpOf(Actor(a)) = <<"lock", m>>
    \/ m = "pauseMu" /\ Actor(a).st = "parked" /\ a \notin waiters

HeldBy(a) == {m \in Mutexes : Held[m] = a}

\* no actor holds two mutexes or is in Lock() while it holds one, and an
\* actor in Unlock() holds the mutex
NoNestedLock ==
    \A a \in Actors :
        /\ Cardinality(HeldBy(a)) <= 1
        /\ (\E m \in Mutexes : WaitsFor(a, m)) => HeldBy(a) = {}
        /\ OpOf(Actor(a))[1] = "unlock" => HeldBy(a) = {OpOf(Actor(a))[2]}

\* the holder of a mutex somebody waits for can go on
NoDeadlock ==
    \A a \in Actors, m \in Mutexes :
        WaitsFor(a, m) /\ Held[m] # "none" =>
            ENABLED (LUnlock(Held[m]) \/ LCheck(Held[m]) \/ LBranch(Held[m])
                        \/ LToggle(Held[m]) \/ LBroadcast(Held[m]))

\* C29: no actor acquires a lock while it holds another one among sketchMu,
\* model.mu, pauseMu and the metrics mutex, no reachable state is a deadlock,
\* and under fair scheduling every actor that waits for one of these locks
\* acquires it.
C29_NoNestedLockNoStarvation ==
    /\ [](NoNestedLock /\ NoDeadlock)
    /\ \A a \in Actors, m \in Mutexes : WaitsFor(a, m) ~> (Held[m] = a)

\* the reader and the ticker both wait for sketchMu while the UI holds it
C29_Witness ==
    /\ WaitsFor("reader", "sketchMu")
    /\ WaitsFor("ticker", "sketchMu")
    /\ Held.sketchMu = "ui"

\* ------------------------------------------- the segments of a refresh
\* the slices r.items[start:end] handed to updateCountsFn, as <<first
\* position, length>>, lie within the items
InBounds(segs, n) ==
    \A s \in DOMAIN segs :
        /\ segs[s][1] >= 1
        /\ segs[s][2] >= 0
        /\ segs[s][1] + segs[s][2] - 1 <= n

\* no position is in two segments
Disjoint(segs) ==
    \A s, t \in DOMAIN segs :
        s # t => \A i \in segs[s][1] .. (segs[s][1] + segs[s][2] - 1) :
                    i < segs[t][1] \/ i >= segs[t][1] + segs[t][2]

\* C31: in every partial refresh each slice handed to updateCountsFn lies
\* within the ranker's items, and the segments of one refresh cover exactly
\* limit distinct positions, also when the zero trim of the refresh before
\* left partialCursor >= |items|.
C31_SegmentsInBoundsCoverLimit ==
    [][PartialCalled =>
          /\ InBounds(ui'.segs, Len(ranker.items))
          /\ Disjoint(ui'.segs)
          /\ Cardinality(ui'.refreshed) = RuleLimit
          /\ ui'.refreshed \subseteq 1 .. Len(ranker.items)]_vars

\* a window of one on two items that starts from a cursor left behind the
\* end by the trim of the third item
C31_Witness ==
    /\ ui.stale
    /\ ui.segs = <<<<1, 1>>>>
    /\ ui.limit = 1
    /\ ranker.partialCursor = 1
    /\ Len(ranker.items) = 2

\* ------------------------------------------ events behind the data clock
\* a step in which the reader calls doSketchTicks(eventTime, last) for the
\* record it has taken
DriverCalled ==
    /\ rd.pc \in {"next", "parked", "sleep"}
    /\ rd'.pc \in {"add_lock", "tick_lock"}
    /\ cfg.mode # "text"
    /\ EventTime(rd'.cur) # 0

\* the event of the call is not after the driver's last time
LateEvent == DriverCalled /\ Truncated(EventTime(rd'.cur)) <= rd.last

\* the reader's Incr / Add of the record it holds
EventAdded == rd.pc = "add" /\ rd'.pc # "add"

\* C32: an event whose truncated timestamp is not after the driver's last
\* time causes no Ticks call and leaves last unchanged, the driver's last time
\* never decreases, and the event is still added to the sketch as it is, in
\* its current tick slot.
C32_LateEventNoTicksStillAdded ==
    [][/\ LateEvent => /\ rd'.pc = "add_lock"
                       /\ rd'.last = rd.last
                       /\ sketch' = sketch
       /\ rd'.last >= rd.last
       /\ rd.pc = "add_lock" => rd'.pc \in {"add_lock", "add"}
       /\ EventAdded =>
             /\ sketch' \in SketchAdd(sketch, cfg.k, rd.cur.item, Increment(rd.cur))
             /\ rd'.last = rd.last
             /\ rd'.n = rd.n + 1]_vars

\* both lines of the log are in the sketch and the second was a tick behind
\* the driver's time
C32_Witness ==
    /\ cfg.name = "late"
    /\ rd.n = 2
    /\ EventTime(rd.cur) # 0
    /\ Truncated(EventTime(rd.cur)) < rd.last
    /\ Count(sketch, "a") = 2

====
